---- MODULE Spec2Model ----
(***************************************************************************)
(* A model of Asynkron.TextLayout (Python port): the XY-cut segmenter of   *)
(* textlayout/parser.py, the voting aggregator of                          *)
(* parsing/extractors/extractor_aggregator.py, the amount parser of        *)
(* parsing/money_parser.py, the orchestrator of                            *)
(* parsing/unified_invoice_parser.py with its facade, the date parser and  *)
(* the locale detector, the amount and anchored date extractors, and the   *)
(* vendor resolver of parsing/vendor_parser.py.                            *)
(*                                                                         *)
(* Each component is a pure computation.  It is modelled by a              *)
(* specification of its own (SpecXY, SpecAgg, SpecMoney, SpecParse,        *)
(* SpecSelect, SpecNorm, SpecFmt, SpecExtract, SpecDate, SpecLocale,       *)
(* SpecAmount, SpecVendor, SpecPos, SpecDates, SpecCustomer, SpecItems)    *)
(* whose initial states draw the inputs from bounded sets and whose        *)
(* actions apply the code; the variables of the other components stay      *)
(* idle.                                                                   *)
(*                                                                         *)
(* Texts are sequences of one-character strings.  Python lists that the    *)
(* code indexes are functions on 0..n-1, so that the indices of the model  *)
(* are the indices of the source; lists that are only iterated are         *)
(* sequences.  None is the model value NoneVal.                            *)
(***************************************************************************)
EXTENDS Integers, Sequences, FiniteSets, TLC

VARIABLES
    xy_pc,          \* "input" | "done": position in process_document
    xy_text,        \* the text handed to process_document
    xy_min_gap,     \* its min_gap argument
    xy_matrix,      \* text_to_matrix(text)
    xy_rects,       \* the rectangles detect_blocks cuts, in order
    agg_pc,         \* "loop" | "done": position in ExtractBest / ExtractAll
    agg_op,         \* which of the two operations was called
    agg_ti,         \* index of the current text (for text in texts)
    agg_ei,         \* index of the current extractor (for extractor in extractors)
    agg_votes,      \* the dict votes, as its items in insertion order
    agg_seen,       \* history: every result the extractors returned, in order
    agg_result,     \* the value returned
    p_pc,           \* position in ParseInvoice / Parse: "call" | "parse" |
                    \* "extract" | "exception" | "returned" | "raised"
    p_entry,        \* "facade": InvoiceParsingFacade.ParseInvoice is called;
                    \* "direct": UnifiedInvoiceParser.Parse is called
    p_extraction,   \* the extraction argument
    p_email,        \* the email sender, subject and body arguments
    p_parsed,       \* history: the amounts and the rate as parsed, before
                    \* _calculate_missing_vat_values
    p_threw,        \* history: an extractor raised while Parse was running
    p_out,          \* the ParsedInvoice the caller received
    m_pc,           \* "input" | "done": position in MoneyParser.ParseAmount
    m_x,            \* history: the amount that was written out, as
                    \* <<integer digits, fractional digits>>
    m_style,        \* history: the separators it was written with
    m_text,         \* the text argument of ParseAmount
    m_locale,       \* the locale argument of ParseAmount
    m_result,       \* the Decimal returned, or None
    s_pc,           \* "input" | "selected" | "returned": position in
                    \* _parse_internal, lines 58 to 92
    s_sections,     \* the sections (Name, Text) made of the variants
    s_email,        \* email_document
    s_preferred,    \* preferred_pdf_documents
    s_documents,    \* pdf_preferred_documents, the texts of the amount and
                    \* date extractors
    s_primary,      \* pdf_primary_text, the text of the vendor parser
    n_pc,           \* "input" | "done": position in normalize_block
    n_lines,        \* its lines argument
    n_out,          \* the text returned
    f_pc,           \* "input" | "done": position in format_output
    f_blocks,       \* its blocks argument
    f_output,       \* the text returned
    e_pc,           \* "input" | "blocks" | "output": position in extract
    e_text,         \* the text argument of extract
    e_min_gap,      \* its min_gap argument
    e_round,        \* 1: first application; 2: extract applied to its output
    e_rects,        \* the rectangles cut by detect_blocks
    e_blocks,       \* the blocks returned by process_document
    e_output,       \* the text returned by format_output
    e_first,        \* history: the output of the first application
    d_pc,           \* "input" | "done": position in DateParser.Parse
    d_text,         \* its text argument
    d_locale,       \* its locale argument
    d_result,       \* the date returned, as <<year, month, day>>, or <<>> for None
    l_pc,           \* "input" | "done": position in LocaleDetector.Detect
    l_found,        \* the patterns of locale.py that find a match in the text
    l_us_score,     \* us_score
    l_euro_score,   \* euro_score
    l_result,       \* the Locale returned
    a_pc,           \* "input" | "done": position in an amount extractor's ExtractAll
    a_extractor,    \* the extractor called
    a_text,         \* context.Text (for the anchored total extractor: match.Value)
    a_locale,       \* context.Locale
    a_results,      \* the results returned, as [Value, Votes]
    v_pc,           \* "input" | "done": position in VendorParser.Extract
    v_found,        \* what each vendor source finds in its argument
    v_sender_hint,  \* sender_hint
    v_body,         \* email_body_hint
    v_subject,      \* email_subject
    v_result,       \* the vendor returned
    r_pc,           \* "input" | "done": position in _get_relative_position
    r_anchor,       \* anchor.Position
    r_value,        \* value.Position
    r_result,       \* the (AnchorPosition, distance) returned
    g_pc,           \* "loop" | "call" | "done": position in ExtractorAggregator.ExtractAll
    g_extractor,    \* the extractor of the list
    g_texts,        \* texts: the documents, each a sequence of lines
    g_context,      \* context
    g_ti,           \* index of the text at hand
    g_text_context, \* text_context
    g_results,      \* what the extractor returned last
    g_votes,        \* votes
    g_result,       \* the list returned
    c_pc,           \* "input" | "done": position in _is_customer_context
    c_lines,        \* text, as its lines
    c_vendor,       \* vendor
    c_result,       \* the value returned
    i_pc,           \* "input" | "done": position in _extract_line_items
    i_lines,        \* lines
    i_locale,       \* locale
    i_items         \* items

xyVars == <<xy_pc, xy_text, xy_min_gap, xy_matrix, xy_rects>>
aggVars == <<agg_pc, agg_op, agg_ti, agg_ei, agg_votes, agg_seen, agg_result>>

parseVars == <<p_pc, p_entry, p_extraction, p_email, p_parsed, p_threw, p_out>>

moneyVars == <<m_pc, m_x, m_style, m_text, m_locale, m_result>>

selectVars == <<s_pc, s_sections, s_email, s_preferred, s_documents, s_primary>>
normVars == <<n_pc, n_lines, n_out>>
fmtVars == <<f_pc, f_blocks, f_output>>
extractVars == <<e_pc, e_text, e_min_gap, e_round, e_rects, e_blocks, e_output, e_first>>
dateVars == <<d_pc, d_text, d_locale, d_result>>
localeVars == <<l_pc, l_found, l_us_score, l_euro_score, l_result>>
amountVars == <<a_pc, a_extractor, a_text, a_locale, a_results>>
vendorVars == <<v_pc, v_found, v_sender_hint, v_body, v_subject, v_result>>
posVars == <<r_pc, r_anchor, r_value, r_result>>
datesVars == <<g_pc, g_extractor, g_texts, g_context, g_ti, g_text_context,
    g_results, g_votes, g_result>>
customerVars == <<c_pc, c_lines, c_vendor, c_result>>
itemsVars == <<i_pc, i_lines, i_locale, i_items>>
restVars == <<dateVars, localeVars, amountVars, vendorVars, posVars,
    datesVars, customerVars, itemsVars>>

vars ==
    <<xyVars, aggVars, parseVars, moneyVars, selectVars, normVars, fmtVars,
      extractVars, restVars>>

\* What the actions of one component leave alone.
textVars == <<selectVars, normVars, fmtVars, extractVars>>
xyOthers == <<aggVars, parseVars, moneyVars, textVars, restVars>>
aggOthers == <<xyVars, parseVars, moneyVars, textVars, restVars>>
parseOthers == <<xyVars, aggVars, moneyVars, textVars, restVars>>
moneyOthers == <<xyVars, aggVars, parseVars, textVars, restVars>>
selectOthers == <<
    xyVars, aggVars, parseVars, moneyVars, normVars, fmtVars, extractVars,
    restVars>>
normOthers == <<
    xyVars, aggVars, parseVars, moneyVars, selectVars, fmtVars, extractVars,
    restVars>>
fmtOthers == <<
    xyVars, aggVars, parseVars, moneyVars, selectVars, normVars, extractVars,
    restVars>>
extractOthers == <<
    xyVars, aggVars, parseVars, moneyVars, selectVars, normVars, fmtVars,
    restVars>>

NoneVal == "None"

\* The components that are not called.
SelectIdle ==
    /\ s_pc = "idle"
    /\ s_sections = <<>>
    /\ s_email = NoneVal
    /\ s_preferred = <<>>
    /\ s_documents = <<>>
    /\ s_primary = NoneVal

NormIdle ==
    /\ n_pc = "idle"
    /\ n_lines = <<>>
    /\ n_out = <<>>

FmtIdle ==
    /\ f_pc = "idle"
    /\ f_blocks = <<>>
    /\ f_output = <<>>

ExtractIdle ==
    /\ e_pc = "idle"
    /\ e_text = <<>>
    /\ e_min_gap = 0
    /\ e_round = 0
    /\ e_rects = <<>>
    /\ e_blocks = <<>>
    /\ e_output = <<>>
    /\ e_first = <<>>

TextIdle == SelectIdle /\ NormIdle /\ FmtIdle /\ ExtractIdle

DateIdle ==
    /\ d_pc = "idle"
    /\ d_text = <<>>
    /\ d_locale = NoneVal
    /\ d_result = <<>>

LocaleIdle ==
    /\ l_pc = "idle"
    /\ l_found = {}
    /\ l_us_score = 0
    /\ l_euro_score = 0
    /\ l_result = NoneVal

AmountIdle ==
    /\ a_pc = "idle"
    /\ a_extractor = NoneVal
    /\ a_text = <<>>
    /\ a_locale = NoneVal
    /\ a_results = <<>>

VendorIdle ==
    /\ v_pc = "idle"
    /\ v_found = <<>>
    /\ v_sender_hint = NoneVal
    /\ v_body = NoneVal
    /\ v_subject = NoneVal
    /\ v_result = NoneVal

PosIdle ==
    /\ r_pc = "idle"
    /\ r_anchor = <<>>
    /\ r_value = <<>>
    /\ r_result = <<>>

DatesIdle ==
    /\ g_pc = "idle"
    /\ g_extractor = NoneVal
    /\ g_texts = <<>>
    /\ g_context = <<>>
    /\ g_ti = 0
    /\ g_text_context = <<>>
    /\ g_results = <<>>
    /\ g_votes = <<>>
    /\ g_result = <<>>

CustomerIdle ==
    /\ c_pc = "idle"
    /\ c_lines = <<>>
    /\ c_vendor = ""
    /\ c_result = FALSE

ItemsIdle ==
    /\ i_pc = "idle"
    /\ i_lines = <<>>
    /\ i_locale = NoneVal
    /\ i_items = <<>>

RestIdle == DateIdle /\ LocaleIdle /\ AmountIdle /\ VendorIdle /\ PosIdle /\
    DatesIdle /\ CustomerIdle /\ ItemsIdle

\* One of these components is called: the others stay idle.
dateOthers == <<xyVars, aggVars, parseVars, moneyVars, textVars, localeVars,
    amountVars, vendorVars, posVars, datesVars, customerVars, itemsVars>>
localeOthers == <<xyVars, aggVars, parseVars, moneyVars, textVars, dateVars,
    amountVars, vendorVars, posVars, datesVars, customerVars, itemsVars>>
amountOthers == <<xyVars, aggVars, parseVars, moneyVars, textVars, dateVars,
    localeVars, vendorVars, posVars, datesVars, customerVars, itemsVars>>
vendorOthers == <<xyVars, aggVars, parseVars, moneyVars, textVars, dateVars,
    localeVars, amountVars, posVars, datesVars, customerVars, itemsVars>>
posOthers == <<xyVars, aggVars, parseVars, moneyVars, textVars, dateVars,
    localeVars, amountVars, vendorVars, datesVars, customerVars, itemsVars>>
datesOthers == <<xyVars, aggVars, parseVars, moneyVars, textVars, dateVars,
    localeVars, amountVars, vendorVars, posVars, customerVars, itemsVars>>
customerOthers == <<xyVars, aggVars, parseVars, moneyVars, textVars, dateVars,
    localeVars, amountVars, vendorVars, posVars, datesVars, itemsVars>>
itemsOthers == <<xyVars, aggVars, parseVars, moneyVars, textVars, dateVars,
    localeVars, amountVars, vendorVars, posVars, datesVars, customerVars>>

(***************************************************************************)
(* Generic helpers over sequences and 0-based lists.                       *)
(***************************************************************************)
RECURSIVE SeqsUpTo(_, _)
SeqsUpTo(S, n) ==
    IF n = 0 THEN {<<>>}
    ELSE LET shorter == SeqsUpTo(S, n - 1)
         IN shorter \cup {Append(s, x) : s \in {t \in shorter : Len(t) = n - 1}, x \in S}

\* A 0-based list from a sequence, and its length.
ToList(s) == [i \in 0..(Len(s) - 1) |-> s[i + 1]]
len(l) == Cardinality(DOMAIN l)

SetMin(S) == CHOOSE x \in S : \A y \in S : x <= y
SetMax(S) == CHOOSE x \in S : \A y \in S : x >= y

(***************************************************************************)
(* textlayout/parser.py: the text grid and the XY-cut.                     *)
(***************************************************************************)
\* str.split(sep) for a one-character separator.
RECURSIVE split(_, _)
split(s, sep) ==
    IF \A i \in 1..Len(s) : s[i] # sep THEN <<s>>
    ELSE LET i == CHOOSE k \in 1..Len(s) :
                      s[k] = sep /\ \A j \in 1..(k - 1) : s[j] # sep
         IN <<SubSeq(s, 1, i - 1)>> \o split(SubSeq(s, i + 1, Len(s)), sep)

\* str.ljust(width): pad on the right with spaces.
ljust(line, width) ==
    IF Len(line) >= width THEN line
    ELSE line \o [i \in 1..(width - Len(line)) |-> " "]

text_to_matrix(text) ==
    LET lines == split(text, "\n")
        max_width == SetMax({Len(lines[i]) : i \in 1..Len(lines)} \cup {0})
    IN ToList([i \in 1..Len(lines) |-> ToList(ljust(lines[i], max_width))])

is_blank_row(matrix, row) ==
    \A c \in DOMAIN matrix[row] : matrix[row][c] \in {" ", ""}

is_blank_col(matrix, col, start_row, end_row) ==
    \A r \in start_row..end_row : matrix[r][col] \in {" ", ""}

\* The for loop of split_horizontal, from row r on.
RECURSIVE split_horizontal_loop(_, _, _, _, _)
split_horizontal_loop(matrix, r, in_section, section_start, sections) ==
    IF r >= len(matrix)
    THEN IF in_section
         THEN Append(sections, <<section_start, len(matrix) - 1>>)
         ELSE sections
    ELSE IF is_blank_row(matrix, r)
         THEN IF in_section
              THEN split_horizontal_loop(matrix, r + 1, FALSE, section_start,
                                         Append(sections, <<section_start, r - 1>>))
              ELSE split_horizontal_loop(matrix, r + 1, in_section, section_start, sections)
         ELSE IF ~in_section
              THEN split_horizontal_loop(matrix, r + 1, TRUE, r, sections)
              ELSE split_horizontal_loop(matrix, r + 1, in_section, section_start, sections)

split_horizontal(matrix) ==
    IF len(matrix) = 0 THEN <<>>
    ELSE split_horizontal_loop(matrix, 0, FALSE, 0, <<>>)

\* The for loop of find_vertical_gaps, from column c on.  A run of blank
\* columns that reaches the right edge is never appended.
RECURSIVE find_vertical_gaps_loop(_, _, _, _, _, _, _, _)
find_vertical_gaps_loop(matrix, start_row, end_row, min_gap, c, in_gap, gap_start, gaps) ==
    IF c >= len(matrix[0]) THEN gaps
    ELSE IF is_blank_col(matrix, c, start_row, end_row)
         THEN IF ~in_gap
              THEN find_vertical_gaps_loop(matrix, start_row, end_row, min_gap,
                                           c + 1, TRUE, c, gaps)
              ELSE find_vertical_gaps_loop(matrix, start_row, end_row, min_gap,
                                           c + 1, in_gap, gap_start, gaps)
         ELSE IF in_gap
              THEN find_vertical_gaps_loop(matrix, start_row, end_row, min_gap,
                       c + 1, FALSE, gap_start,
                       IF c - gap_start >= min_gap
                       THEN Append(gaps, <<gap_start, c - 1>>) ELSE gaps)
              ELSE find_vertical_gaps_loop(matrix, start_row, end_row, min_gap,
                                           c + 1, in_gap, gap_start, gaps)

find_vertical_gaps(matrix, start_row, end_row, min_gap) ==
    IF len(matrix) = 0 \/ len(matrix[0]) = 0 THEN <<>>
    ELSE find_vertical_gaps_loop(matrix, start_row, end_row, min_gap, 0, FALSE, 0, <<>>)

\* A plausible slip: the rows scanned as range(start_row, end_row).
find_text_bounds_RowsExclusive(matrix, start_row, end_row, start_col, end_col) ==
    LET cols == {c \in start_col..(end_col - 1) :
                    \E r \in start_row..(end_row - 1) : matrix[r][c] \notin {" ", ""}}
    IN IF cols # {} THEN <<SetMin(cols), SetMax(cols)>> ELSE NoneVal

\* (min_col, max_col) of the non-blank cells of rows start_row..end_row and
\* columns start_col..end_col-1 (range(start_col, end_col)), or None.
find_text_bounds(matrix, start_row, end_row, start_col, end_col) ==
    LET cols == {c \in start_col..(end_col - 1) :
                    \E r \in start_row..end_row : matrix[r][c] \notin {" ", ""}}
    IN IF cols # {} THEN <<SetMin(cols), SetMax(cols)>> ELSE NoneVal

\* The for loop of split_vertical over the gaps, then its last column.
RECURSIVE split_vertical_loop(_, _, _, _, _, _, _)
split_vertical_loop(matrix, start_row, end_row, gaps, g, prev_end, columns) ==
    IF g > Len(gaps)
    THEN IF prev_end < len(matrix[0])
         THEN LET bounds == find_text_bounds(matrix, start_row, end_row,
                                             prev_end, len(matrix[0]))
              IN IF bounds # NoneVal THEN Append(columns, bounds) ELSE columns
         ELSE columns
    ELSE LET gap_start == gaps[g][1]
             gap_end == gaps[g][2]
             bounds == find_text_bounds(matrix, start_row, end_row, prev_end, gap_start)
         IN split_vertical_loop(matrix, start_row, end_row, gaps, g + 1, gap_end + 1,
                                IF bounds # NoneVal THEN Append(columns, bounds)
                                ELSE columns)

split_vertical(matrix, start_row, end_row, min_gap) ==
    IF len(matrix) = 0 \/ len(matrix[0]) = 0 THEN <<>>
    ELSE LET width == len(matrix[0])
             gaps == find_vertical_gaps(matrix, start_row, end_row, min_gap)
         IN IF gaps = <<>>
            THEN LET bounds == find_text_bounds(matrix, start_row, end_row, 0, width)
                 IN IF bounds # NoneVal THEN <<bounds>> ELSE <<>>
            ELSE split_vertical_loop(matrix, start_row, end_row, gaps, 1, 0, <<>>)

\* The rectangles (start_row, end_row, start_col, end_col) that the two
\* nested loops of detect_blocks hand to extract_block, in order.
RECURSIVE detect_blocks_rects(_, _, _, _)
detect_blocks_rects(matrix, min_gap, sections, s) ==
    IF s > Len(sections) THEN <<>>
    ELSE LET start_row == sections[s][1]
             end_row == sections[s][2]
             columns == split_vertical(matrix, start_row, end_row, min_gap)
         IN [k \in 1..Len(columns) |->
                <<start_row, end_row, columns[k][1], columns[k][2]>>]
            \o detect_blocks_rects(matrix, min_gap, sections, s + 1)

detect_blocks(matrix, min_gap) ==
    detect_blocks_rects(matrix, min_gap, split_horizontal(matrix), 1)

(***************************************************************************)
(* SpecXY: process_document on every text of at most MaxTextLen characters *)
(* over {space, x, newline} and every min_gap in 1..MaxMinGap.             *)
(***************************************************************************)
MaxTextLen == 9
MaxMinGap == 2
XYChars == {" ", "x", "\n"}

XYIdle ==
    /\ xy_pc = "idle"
    /\ xy_text = <<>>
    /\ xy_min_gap = 0
    /\ xy_matrix = <<>>
    /\ xy_rects = <<>>

XYStart ==
    /\ xy_pc = "input"
    /\ xy_text \in SeqsUpTo(XYChars, MaxTextLen)
    /\ xy_min_gap \in 1..MaxMinGap
    /\ xy_matrix = <<>>
    /\ xy_rects = <<>>

\* process_document(text, min_gap): text_to_matrix, then detect_blocks.
ProcessDocument ==
    /\ xy_pc = "input"
    /\ xy_matrix' = text_to_matrix(xy_text)
    /\ xy_rects' = detect_blocks(text_to_matrix(xy_text), xy_min_gap)
    /\ xy_pc' = "done"
    /\ UNCHANGED <<xy_text, xy_min_gap>>
    /\ UNCHANGED xyOthers

\* The cells of the matrix, those that are non-blank, and the cells of a
\* rectangle.
Cells(matrix) == {<<r, c>> : r \in DOMAIN matrix, c \in UNION {DOMAIN matrix[r] : r \in DOMAIN matrix}}
NonBlankCells(matrix) == {p \in Cells(matrix) : matrix[p[1]][p[2]] \notin {" ", ""}}
InRect(p, rect) == rect[1] <= p[1] /\ p[1] <= rect[2] /\ rect[3] <= p[2] /\ p[2] <= rect[4]

\* C1: the rectangles detect_blocks cuts are pairwise disjoint and every
\* non-blank cell of the padded matrix lies in exactly one of them.
C1_BlocksPartitionNonBlankCells ==
    xy_pc = "done" =>
        /\ \A i, j \in 1..Len(xy_rects) :
              i # j => ~\E p \in Cells(xy_matrix) :
                            InRect(p, xy_rects[i]) /\ InRect(p, xy_rects[j])
        /\ \A p \in NonBlankCells(xy_matrix) :
              Cardinality({i \in 1..Len(xy_rects) : InRect(p, xy_rects[i])}) = 1

\* A run with two sections, one of them cut into two columns.
C1_Witness ==
    /\ xy_pc = "done"
    /\ Len(xy_rects) >= 3
    /\ \E i, j \in 1..Len(xy_rects) :
          /\ i # j
          /\ xy_rects[i][1] = xy_rects[j][1]
          /\ xy_rects[i][2] > xy_rects[i][1]
    /\ \E i, j \in 1..Len(xy_rects) : xy_rects[i][1] # xy_rects[j][1]

(***************************************************************************)
(* parsing/extractors: ExtractionResult and ExtractorAggregator.           *)
(* A result is [Value, Votes]; the dict votes is the sequence of its items *)
(* <<key, value>> in insertion order (a Python dict keeps the position of  *)
(* a key that is assigned again).                                          *)
(***************************************************************************)
\* ExtractionResult.HasValue
HasValue(result) == result.Value # NoneVal /\ result.Votes > 0

\* votes.get(key, default)
dict_get(votes, key, default) ==
    IF \E i \in 1..Len(votes) : votes[i][1] = key
    THEN LET i == CHOOSE k \in 1..Len(votes) : votes[k][1] = key IN votes[i][2]
    ELSE default

\* votes[key] = value
dict_set(votes, key, value) ==
    IF \E i \in 1..Len(votes) : votes[i][1] = key
    THEN [i \in 1..Len(votes) |-> IF votes[i][1] = key THEN <<key, value>> ELSE votes[i]]
    ELSE Append(votes, <<key, value>>)

\* A plausible slip: the votes of a result replace the sum instead of adding to it.
aggregate_result_Overwrite(votes, result) ==
    IF ~HasValue(result) THEN votes
    ELSE dict_set(votes, result.Value, result.Votes)

\* The body of the innermost loop of ExtractBest and of ExtractAll.
aggregate_result(votes, result) ==
    IF ~HasValue(result) THEN votes
    ELSE LET current == dict_get(votes, result.Value, 0)
         IN dict_set(votes, result.Value, current + result.Votes)

\* A plausible slip: a later item with the same key value replaces the best.
RECURSIVE max_by_votes_LastWins(_, _, _)
max_by_votes_LastWins(items, i, best) ==
    IF i > Len(items) THEN best
    ELSE max_by_votes_LastWins(items, i + 1,
                               IF items[i][2] >= best[2] THEN items[i] ELSE best)

\* max(items, key=lambda item: item[1]) from item i on: the first item whose
\* key value is the greatest.
RECURSIVE max_by_votes(_, _, _)
max_by_votes(items, i, best) ==
    IF i > Len(items) THEN best
    ELSE max_by_votes(items, i + 1, IF items[i][2] > best[2] THEN items[i] ELSE best)

\* sorted(items, key=lambda item: item[1], reverse=True): a stable sort,
\* greatest key value first, equal key values in their original order.
RECURSIVE sorted_by_votes_reverse(_)
sorted_by_votes_reverse(items) ==
    IF items = <<>> THEN <<>>
    ELSE LET n == Len(items)
             rest == sorted_by_votes_reverse(SubSeq(items, 1, n - 1))
             last == items[n]
             \* the last item goes after every item whose key value is >= its own
             k == Cardinality({i \in 1..Len(rest) : rest[i][2] >= last[2]})
         IN SubSeq(rest, 1, k) \o <<last>> \o SubSeq(rest, k + 1, Len(rest))

\* The end of ExtractBest.
ExtractBest_return(votes) ==
    IF votes = <<>> THEN NoneVal
    ELSE max_by_votes(votes, 2, votes[1])[1]

\* The end of ExtractAll.
ExtractAll_return(votes) == sorted_by_votes_reverse(votes)

(***************************************************************************)
(* SpecAgg: ExtractBest and ExtractAll over two texts and two extractors,  *)
(* the extractors returning at most MaxResults results in all, each with a *)
(* value in AggValues and votes in 0..MaxVotes.                            *)
(***************************************************************************)
MaxResults == 3
MaxVotes == 2
AggTexts == <<"text1", "text2">>
AggExtractors == <<"extractor1", "extractor2">>
AggValues == {NoneVal, "", "A", "B"}
AggResults == [Value : AggValues, Votes : 0..MaxVotes]

AggIdle ==
    /\ agg_pc = "idle"
    /\ agg_op = NoneVal
    /\ agg_ti = 0
    /\ agg_ei = 0
    /\ agg_votes = <<>>
    /\ agg_seen = <<>>
    /\ agg_result = NoneVal

AggStart ==
    /\ agg_pc = "loop"
    /\ agg_op \in {"ExtractBest", "ExtractAll"}
    /\ agg_ti = 1
    /\ agg_ei = 1
    /\ agg_votes = <<>>
    /\ agg_seen = <<>>
    /\ agg_result = NoneVal

\* for result in extractor.ExtractAll(text_context): one result of the
\* current extractor on the current text, and the loop body on it.
ExtractorYields ==
    /\ agg_pc = "loop"
    /\ agg_ti <= Len(AggTexts)
    /\ agg_ei <= Len(AggExtractors)
    /\ Len(agg_seen) < MaxResults
    /\ \E result \in AggResults :
          /\ agg_seen' = Append(agg_seen, result)
          /\ agg_votes' = aggregate_result(agg_votes, result)
    /\ UNCHANGED <<agg_pc, agg_op, agg_ti, agg_ei, agg_result>>
    /\ UNCHANGED aggOthers

\* for extractor in extractors: the results of the current extractor are
\* exhausted and the next one is taken.
NextExtractor ==
    /\ agg_pc = "loop"
    /\ agg_ti <= Len(AggTexts)
    /\ agg_ei < Len(AggExtractors)
    /\ agg_ei' = agg_ei + 1
    /\ UNCHANGED <<agg_pc, agg_op, agg_ti, agg_votes, agg_seen, agg_result>>
    /\ UNCHANGED aggOthers

\* for text in texts: the extractors are exhausted and the next text is taken.
NextText ==
    /\ agg_pc = "loop"
    /\ agg_ti <= Len(AggTexts)
    /\ agg_ei = Len(AggExtractors)
    /\ agg_ti' = agg_ti + 1
    /\ agg_ei' = 1
    /\ UNCHANGED <<agg_pc, agg_op, agg_votes, agg_seen, agg_result>>
    /\ UNCHANGED aggOthers

\* ExtractBest, after its loops.
ExtractBestReturns ==
    /\ agg_pc = "loop"
    /\ agg_op = "ExtractBest"
    /\ agg_ti > Len(AggTexts)
    /\ agg_result' = ExtractBest_return(agg_votes)
    /\ agg_pc' = "done"
    /\ UNCHANGED <<agg_op, agg_ti, agg_ei, agg_votes, agg_seen>>
    /\ UNCHANGED aggOthers

\* ExtractAll, after its loops.
ExtractAllReturns ==
    /\ agg_pc = "loop"
    /\ agg_op = "ExtractAll"
    /\ agg_ti > Len(AggTexts)
    /\ agg_result' = ExtractAll_return(agg_votes)
    /\ agg_pc' = "done"
    /\ UNCHANGED <<agg_op, agg_ti, agg_ei, agg_votes, agg_seen>>
    /\ UNCHANGED aggOthers

\* What the claims speak of, read off the history of results: the results
\* that survive the filter, the candidate values, the vote total of a
\* value and the place where it was first seen.
Surviving == {i \in 1..Len(agg_seen) : HasValue(agg_seen[i])}
Candidates == {agg_seen[i].Value : i \in Surviving}
RECURSIVE SumVotes(_, _)
SumVotes(value, n) ==
    IF n = 0 THEN 0
    ELSE SumVotes(value, n - 1)
         + (IF n \in Surviving /\ agg_seen[n].Value = value THEN agg_seen[n].Votes ELSE 0)
TotalVotes(value) == SumVotes(value, Len(agg_seen))
FirstSeen(value) == SetMin({i \in Surviving : agg_seen[i].Value = value})

\* C2: ExtractBest returns a candidate whose vote total, summed over all
\* results, is at least the total of every candidate and at least the votes
\* of every single result that survives the filter; it returns None exactly
\* when no result survives.
C2_ExtractBestIsMaximal ==
    (agg_pc = "done" /\ agg_op = "ExtractBest") =>
        /\ (agg_result = NoneVal) <=> (Surviving = {})
        /\ Surviving # {} =>
              /\ agg_result \in Candidates
              /\ \A v \in Candidates : TotalVotes(agg_result) >= TotalVotes(v)
              /\ \A i \in Surviving : TotalVotes(agg_result) >= agg_seen[i].Votes

\* ExtractBest returned a value that wins only by the sum of its votes: no
\* single result of it has more votes than a result of another candidate.
C2_Witness ==
    /\ agg_pc = "done"
    /\ agg_op = "ExtractBest"
    /\ agg_result \in Candidates
    /\ \E v \in Candidates :
          /\ v # agg_result
          /\ \E i \in Surviving :
                /\ agg_seen[i].Value = v
                /\ \A j \in Surviving :
                      agg_seen[j].Value = agg_result => agg_seen[j].Votes <= agg_seen[i].Votes
          /\ TotalVotes(agg_result) > TotalVotes(v)

\* C6: a result whose value is empty (None or "") or whose votes are not
\* positive is discarded: it adds no key and no votes to the dict, and the
\* empty value is neither returned by ExtractBest nor listed by ExtractAll.
EmptyValue(value) == value = NoneVal \/ value = ""
Discarded(result) == EmptyValue(result.Value) \/ result.Votes <= 0
RECURSIVE SumKept(_, _)
SumKept(value, n) ==
    IF n = 0 THEN 0
    ELSE SumKept(value, n - 1)
         + (IF ~Discarded(agg_seen[n]) /\ agg_seen[n].Value = value
            THEN agg_seen[n].Votes ELSE 0)
C6_EmptyOrVotelessDiscarded ==
    agg_pc = "done" =>
        /\ \A i \in 1..Len(agg_votes) :
              /\ ~EmptyValue(agg_votes[i][1])
              /\ agg_votes[i][2] = SumKept(agg_votes[i][1], Len(agg_seen))
        /\ agg_op = "ExtractBest" => agg_result # ""
        /\ agg_op = "ExtractAll" =>
              \A i \in 1..Len(agg_result) : ~EmptyValue(agg_result[i][1])

\* C7: among candidates with the same vote total the one seen first comes
\* first: ExtractBest returns the first seen of the candidates with the
\* greatest total, and ExtractAll lists every candidate once with its total,
\* greatest total first, equal totals in first-seen order.
C7_TiesByInsertionOrder ==
    agg_pc = "done" =>
        IF agg_op = "ExtractBest"
        THEN Surviving # {} =>
                /\ agg_result \in Candidates
                /\ \A v \in Candidates :
                      /\ TotalVotes(v) <= TotalVotes(agg_result)
                      /\ TotalVotes(v) = TotalVotes(agg_result)
                            => FirstSeen(agg_result) <= FirstSeen(v)
        ELSE /\ Len(agg_result) = Cardinality(Candidates)
             /\ \A i \in 1..Len(agg_result) :
                   /\ agg_result[i][1] \in Candidates
                   /\ agg_result[i][2] = TotalVotes(agg_result[i][1])
             /\ \A i, j \in 1..Len(agg_result) :
                   i < j =>
                      /\ agg_result[i][2] >= agg_result[j][2]
                      /\ agg_result[i][2] = agg_result[j][2]
                            => FirstSeen(agg_result[i][1]) < FirstSeen(agg_result[j][1])

\* ExtractBest returned the first seen of two candidates with the same
\* total, the other one having been seen between two of its results.
C7_Witness ==
    /\ agg_pc = "done"
    /\ agg_op = "ExtractBest"
    /\ agg_result \in Candidates
    /\ \E v \in Candidates :
          /\ v # agg_result
          /\ TotalVotes(v) = TotalVotes(agg_result)
          /\ \E i, j, k \in Surviving :
                /\ i < j /\ j < k
                /\ agg_seen[i].Value = agg_result
                /\ agg_seen[j].Value = v
                /\ agg_seen[k].Value = agg_result

(***************************************************************************)
(* parsing/money_parser.py: MoneyParser.ParseAmount.                       *)
(*                                                                         *)
(* A regular expression that is matched against the whole text becomes a   *)
(* predicate on the sequence of characters.  A Decimal is kept as          *)
(* <<integer digits, fractional digits>> without leading zeros in the      *)
(* first and without trailing zeros in the second, so that two Decimals    *)
(* are equal as numbers exactly when their pairs are equal.                *)
(***************************************************************************)
Digits == {"0", "1", "2", "3", "4", "5", "6", "7", "8", "9"}
Whitespace == {" ", "\t", "\n"}
CurrencySigns == {"$"}

IsDigits(s) == \A i \in 1..Len(s) : s[i] \in Digits

\* str.replace(old, "") for a one-character old.
RECURSIVE remove(_, _)
remove(s, old) ==
    IF s = <<>> THEN <<>>
    ELSE IF Head(s) = old THEN remove(Tail(s), old)
    ELSE <<Head(s)>> \o remove(Tail(s), old)

\* str.strip()
RECURSIVE strip(_)
strip(s) ==
    IF s = <<>> THEN s
    ELSE IF Head(s) \in Whitespace THEN strip(Tail(s))
    ELSE IF s[Len(s)] \in Whitespace THEN strip(SubSeq(s, 1, Len(s) - 1))
    ELSE s

\* _ANY_CURRENCY_PATTERN.sub("", text): of the tokens of the pattern only
\* the one-character signs can occur in a text without letters.
RECURSIVE remove_currency(_)
remove_currency(s) ==
    IF s = <<>> THEN <<>>
    ELSE IF Head(s) \in CurrencySigns THEN remove_currency(Tail(s))
    ELSE <<Head(s)>> \o remove_currency(Tail(s))

\* The two groups of a match of ^(G1)c(G2)$ where neither group can hold
\* the character c: c occurs once and splits the text.
split_at(text, c) ==
    LET at == {i \in 1..Len(text) : text[i] = c}
    IN IF Cardinality(at) # 1 THEN NoneVal
       ELSE LET k == CHOOSE i \in at : TRUE
            IN <<SubSeq(text, 1, k - 1), SubSeq(text, k + 1, Len(text))>>

\* \d{1,3}(?:[seps]\d{3})* matches all of s.
grouped_digits(s, seps) ==
    LET n == Len(s)
        r == n % 4
    IN /\ r \in 1..3
       /\ IsDigits(SubSeq(s, 1, r))
       /\ \A k \in 0..(((n - r) \div 4) - 1) :
              /\ s[r + 4 * k + 1] \in seps
              /\ IsDigits(SubSeq(s, r + 4 * k + 2, r + 4 * k + 4))

\* _EUROPEAN_FORMATTED_AMOUNT_PATTERN.match: the groups or None.
european_formatted_match(text) ==
    LET m == split_at(text, ",")
    IN IF m = NoneVal THEN NoneVal
       ELSE IF /\ grouped_digits(m[1], Whitespace \cup {"."})
               /\ Len(m[2]) \in 1..2 /\ IsDigits(m[2])
       THEN m ELSE NoneVal

\* _SIMPLE_COMMA_DECIMAL_PATTERN.match
simple_comma_decimal_match(text) ==
    LET m == split_at(text, ",")
    IN IF m = NoneVal THEN NoneVal
       ELSE IF /\ Len(m[1]) >= 1 /\ IsDigits(m[1])
               /\ Len(m[2]) \in 1..2 /\ IsDigits(m[2])
       THEN m ELSE NoneVal

\* _US_FORMATTED_AMOUNT_PATTERN.match
us_formatted_match(text) ==
    LET m == split_at(text, ".")
    IN IF m = NoneVal THEN NoneVal
       ELSE IF /\ grouped_digits(m[1], {","})
               /\ Len(m[2]) \in 1..2 /\ IsDigits(m[2])
       THEN m ELSE NoneVal

\* _SIMPLE_DOT_DECIMAL_PATTERN.match
simple_dot_decimal_match(text) ==
    LET m == split_at(text, ".")
    IN IF m = NoneVal THEN NoneVal
       ELSE IF /\ Len(m[1]) >= 1 /\ IsDigits(m[1])
               /\ Len(m[2]) \in 1..2 /\ IsDigits(m[2])
       THEN m ELSE NoneVal

\* _COMMA_DECIMAL_WITH_SEPARATORS_PATTERN.match; the first group is
\* optional and "" stands for group(1) or "".
comma_decimal_with_separators_match(text) ==
    LET m == split_at(text, ",")
    IN IF m = NoneVal THEN NoneVal
       ELSE IF /\ \/ m[1] = <<>>
                  \/ /\ m[1][1] \in Digits
                     /\ \A i \in 1..Len(m[1]) :
                            m[1][i] \in Digits \cup Whitespace \cup {"."}
               /\ Len(m[2]) = 2 /\ IsDigits(m[2])
       THEN m ELSE NoneVal

\* _DOT_DECIMAL_WITH_SEPARATORS_PATTERN.match
dot_decimal_with_separators_match(text) ==
    LET m == split_at(text, ".")
    IN IF m = NoneVal THEN NoneVal
       ELSE IF /\ m[1] # <<>> /\ m[1][1] \in Digits
               /\ \A i \in 1..Len(m[1]) : m[1][i] \in Digits \cup {","}
               /\ Len(m[2]) = 2 /\ IsDigits(m[2])
       THEN m ELSE NoneVal

RECURSIVE strip_leading_zeros(_)
strip_leading_zeros(s) ==
    IF s # <<>> /\ Head(s) = "0" THEN strip_leading_zeros(Tail(s)) ELSE s

RECURSIVE strip_trailing_zeros(_)
strip_trailing_zeros(s) ==
    IF s # <<>> /\ s[Len(s)] = "0"
    THEN strip_trailing_zeros(SubSeq(s, 1, Len(s) - 1)) ELSE s

\* The number with these integer and fractional digits.
DecimalValue(int_digits, frac_digits) ==
    <<strip_leading_zeros(int_digits), strip_trailing_zeros(frac_digits)>>

\* _try_parse_decimal: Decimal(value), None when Decimal raises.  Of the
\* texts over digits, separators and blanks Decimal takes the ones made of
\* digits and at most one point, with a digit.
try_parse_decimal(value) ==
    LET points == {i \in 1..Len(value) : value[i] = "."}
    IN IF \/ \E i \in 1..Len(value) : value[i] \notin Digits \cup {"."}
          \/ Cardinality(points) > 1
          \/ \A i \in 1..Len(value) : value[i] \notin Digits
       THEN NoneVal
       ELSE IF points = {} THEN DecimalValue(value, <<>>)
       ELSE LET m == split_at(value, ".") IN DecimalValue(m[1], m[2])

\* A plausible slip: the points between the groups are left in.
european_int_part_KeepsPoints(group) == remove(group, " ")

\* euro_match.group(1).replace(" ", "").replace(".", "")
european_int_part(group) == remove(remove(group, " "), ".")

\* us_match.group(1).replace(",", "")
us_int_part(group) == remove(group, ",")

ParseAmount(text_arg, locale) ==
    LET text == strip(remove_currency(text_arg))
        euro_match == european_formatted_match(text)
        simple_euro == simple_comma_decimal_match(text)
        us_match == us_formatted_match(text)
        simple_us == simple_dot_decimal_match(text)
        comma_decimal == comma_decimal_with_separators_match(text)
        dot_decimal == dot_decimal_with_separators_match(text)
    IN IF text = <<>> THEN NoneVal
       ELSE IF locale = "European" /\ euro_match # NoneVal
       THEN try_parse_decimal(european_int_part(euro_match[1]) \o <<".">> \o euro_match[2])
       ELSE IF locale = "European" /\ simple_euro # NoneVal
       THEN try_parse_decimal(simple_euro[1] \o <<".">> \o simple_euro[2])
       ELSE IF locale = "US" /\ us_match # NoneVal
       THEN try_parse_decimal(us_int_part(us_match[1]) \o <<".">> \o us_match[2])
       ELSE IF locale = "US" /\ simple_us # NoneVal
       THEN try_parse_decimal(simple_us[1] \o <<".">> \o simple_us[2])
       ELSE IF comma_decimal # NoneVal
       THEN try_parse_decimal(european_int_part(comma_decimal[1]) \o <<".">> \o comma_decimal[2])
       ELSE IF dot_decimal # NoneVal
       THEN try_parse_decimal(us_int_part(dot_decimal[1]) \o <<".">> \o dot_decimal[2])
       ELSE try_parse_decimal(text)

(***************************************************************************)
(* SpecMoney: one call of ParseAmount on a positive amount of at most      *)
(* MaxIntDigits integer digits and two fractional digits, written with     *)
(* thousands separators and a decimal separator.                           *)
(***************************************************************************)
MaxIntDigits == 7
MoneyDigits == {"0", "9"}
Locales == {"Unknown", "US", "European"}
StyleUS == [Thousands |-> ",", Decimal |-> "."]
StyleEuropeanPoint == [Thousands |-> ".", Decimal |-> ","]
StyleEuropeanSpace == [Thousands |-> " ", Decimal |-> ","]
Styles == {StyleUS, StyleEuropeanPoint, StyleEuropeanSpace}

\* The positive amounts: no leading zero but for a lone 0, not 0.00.
MoneyAmounts ==
    {x \in SeqsUpTo(MoneyDigits, MaxIntDigits) \X SeqsUpTo(MoneyDigits, 2) :
        /\ Len(x[1]) >= 1
        /\ Len(x[1]) > 1 => x[1][1] # "0"
        /\ Len(x[2]) = 2
        /\ DecimalValue(x[1], x[2]) # <<<<>>, <<>>>>}

\* The digits in groups of three from the right.
RECURSIVE group_thousands(_, _)
group_thousands(int_digits, sep) ==
    IF Len(int_digits) <= 3 THEN int_digits
    ELSE group_thousands(SubSeq(int_digits, 1, Len(int_digits) - 3), sep)
             \o <<sep>> \o SubSeq(int_digits, Len(int_digits) - 2, Len(int_digits))

FormatAmount(x, style) ==
    group_thousands(x[1], style.Thousands) \o <<style.Decimal>> \o x[2]

MoneyIdle ==
    /\ m_pc = "idle"
    /\ m_x = NoneVal
    /\ m_style = NoneVal
    /\ m_text = <<>>
    /\ m_locale = NoneVal
    /\ m_result = NoneVal

MoneyStart ==
    /\ m_pc = "input"
    /\ m_x \in MoneyAmounts
    /\ m_style \in Styles
    /\ m_text = FormatAmount(m_x, m_style)
    /\ m_locale \in Locales
    /\ m_result = NoneVal

ParseAmountCall ==
    /\ m_pc = "input"
    /\ m_result' = ParseAmount(m_text, m_locale)
    /\ m_pc' = "done"
    /\ UNCHANGED <<m_x, m_style, m_text, m_locale>>
    /\ UNCHANGED moneyOthers

\* The text is the amount written in the convention of the locale.
InConvention ==
    \/ m_locale = "US" /\ m_style = StyleUS
    \/ m_locale = "European" /\ m_style \in {StyleEuropeanPoint, StyleEuropeanSpace}

\* C5: ParseAmount of a positive amount below 10^7 with two fractional
\* digits, written in the convention of the locale it is called with,
\* returns that amount.
C5_ParseAmountRoundTrip ==
    (m_pc = "done" /\ InConvention) =>
        /\ m_result # NoneVal
        /\ m_result = DecimalValue(m_x[1], m_x[2])

\* '999 999,99' was parsed under the European locale into 999999.99.
C5_Witness ==
    /\ m_pc = "done"
    /\ m_locale = "European"
    /\ m_text = <<"9", "9", "9", " ", "9", "9", "9", ",", "9", "9">>
    /\ m_result = <<<<"9", "9", "9", "9", "9", "9">>, <<"9", "9">>>>

\* C20: ParseAmount honours the locale exclusively: under the US locale it
\* returns a value only for a text of the form 'X,XXX.YY' or 'NN.YY', under
\* the European locale only for 'X.XXX,YY', 'X XXX,YY' or 'NN,YY'; the other
\* convention is tried only when the locale is neither of the two.
C20_LocaleExclusive ==
    (m_pc = "done" /\ m_locale \in {"US", "European"} /\ m_result # NoneVal)
        => InConvention

(***************************************************************************)
(* parsing/unified_invoice_parser.py and parsing/invoice_parsing_facade.py *)
(*                                                                         *)
(* A Decimal or None is <<d>> or <<>>, amounts in hundredths (0.01 is 1).  *)
(* The float confidence score / 8.0 is kept as the number of sixteenths    *)
(* (all weights are multiples of 0.5).  Texts are abstracted to tokens:    *)
(* " " is a blank string, any other string a non-blank one.                *)
(***************************************************************************)
NoDecimal == <<>>
Decimal(d) == <<d>>

\* ParsedInvoice(RawText=..., Confidence=..., Warnings=...), every other
\* field at its default.
ParsedInvoice(raw_text, confidence, warnings) ==
    [InvoiceNumber |-> NoneVal, VendorName |-> NoneVal, VendorAddress |-> NoneVal,
     OrganizationId |-> NoneVal, VatNumber |-> NoneVal, Customer |-> NoneVal,
     InvoiceDate |-> NoneVal, DueDate |-> NoneVal,
     InvoiceDateRaw |-> NoneVal, DueDateRaw |-> NoneVal,
     TotalAmount |-> NoDecimal, TotalExcludingVat |-> NoDecimal,
     VatAmount |-> NoDecimal, VatRate |-> NoDecimal,
     Currency |-> NoneVal, LineItems |-> <<>>,
     RawText |-> raw_text, Confidence |-> confidence, Warnings |-> warnings]

\* Python truth of an optional string, and "s and s.strip()".
Truthy(s) == s # NoneVal /\ s # ""
NonBlank(s) == Truthy(s) /\ s # " "

\* PdfExtractionResult: the extraction is None, holds no variants, holds
\* variants whose texts are all blank, or holds a variant with text.
ExtractionKinds == {NoneVal, "NoVariants", "BlankVariants", "TextVariants"}
HasVariants(extraction) == extraction \in {"BlankVariants", "TextVariants"}

\* PdfExtractionResult.BestText (of the variant of highest quality; with a
\* text variant that one is taken to be the best).
BestText(extraction) ==
    IF ~HasVariants(extraction) THEN NoneVal
    ELSE IF extraction = "TextVariants" THEN "pdf text" ELSE " "

\* A plausible slip: the strip() tests are forgotten.
build_email_document_NoStrip(from_value, subject, body) ==
    IF Truthy(from_value) \/ Truthy(subject) \/ Truthy(body)
    THEN "email text" ELSE NoneVal

\* _build_email_document: None unless a part is non-blank.
build_email_document(from_value, subject, body) ==
    IF NonBlank(from_value) \/ NonBlank(subject) \/ NonBlank(body)
    THEN "email text" ELSE NoneVal

\* text_documents of _parse_internal is not empty: there is an email
\* document or a section whose text is non-blank.
has_text_documents(extraction, email_document) ==
    Truthy(email_document) \/ extraction = "TextVariants"

\* pdf_combined_text of _parse_internal: the preferred documents (every
\* section's text, blank or not) if there is a section, else the combined text.
pdf_combined_text(extraction, email_document) ==
    IF HasVariants(extraction) THEN BestText(extraction) ELSE email_document

\* The invoice _parse_internal starts from (line 94), RawText being
\* raw_pdf_text or pdf_combined_text.
initial_invoice(extraction, email_document) ==
    ParsedInvoice(IF Truthy(BestText(extraction)) THEN BestText(extraction)
                  ELSE pdf_combined_text(extraction, email_document),
                  0, <<>>)

\* A plausible slip: vat = total is let through (> for >=).
calculate_missing_vat_values_StrictDiscard(invoice) ==
    LET total == invoice.TotalAmount
        vat == invoice.VatAmount
        subtotal == invoice.TotalExcludingVat
        rate == invoice.VatRate
        derived ==
            IF total # NoDecimal /\ vat # NoDecimal /\ subtotal = NoDecimal
            THEN [invoice EXCEPT !.TotalExcludingVat = Decimal(total[1] - vat[1])]
            ELSE IF subtotal # NoDecimal /\ vat # NoDecimal /\ total = NoDecimal
            THEN [invoice EXCEPT !.TotalAmount = Decimal(subtotal[1] + vat[1])]
            ELSE IF subtotal # NoDecimal /\ rate # NoDecimal /\ total = NoDecimal
            THEN [invoice EXCEPT
                    !.VatAmount = Decimal((subtotal[1] * rate[1]) \div 100),
                    !.TotalAmount = Decimal(subtotal[1] + (subtotal[1] * rate[1]) \div 100)]
            ELSE IF total # NoDecimal /\ subtotal # NoDecimal /\ vat = NoDecimal
            THEN [invoice EXCEPT !.VatAmount = Decimal(total[1] - subtotal[1])]
            ELSE invoice
    IN IF /\ derived.VatAmount # NoDecimal
          /\ derived.TotalAmount # NoDecimal
          /\ derived.VatAmount[1] > derived.TotalAmount[1]
       THEN [derived EXCEPT !.VatAmount = NoDecimal]
       ELSE derived

\* A plausible slip: the VAT derived from total and subtotal is their sum.
calculate_missing_vat_values_SumForVat(invoice) ==
    LET total == invoice.TotalAmount
        vat == invoice.VatAmount
        subtotal == invoice.TotalExcludingVat
        rate == invoice.VatRate
        derived ==
            IF total # NoDecimal /\ vat # NoDecimal /\ subtotal = NoDecimal
            THEN [invoice EXCEPT !.TotalExcludingVat = Decimal(total[1] - vat[1])]
            ELSE IF subtotal # NoDecimal /\ vat # NoDecimal /\ total = NoDecimal
            THEN [invoice EXCEPT !.TotalAmount = Decimal(subtotal[1] + vat[1])]
            ELSE IF subtotal # NoDecimal /\ rate # NoDecimal /\ total = NoDecimal
            THEN [invoice EXCEPT
                    !.VatAmount = Decimal((subtotal[1] * rate[1]) \div 100),
                    !.TotalAmount = Decimal(subtotal[1] + (subtotal[1] * rate[1]) \div 100)]
            ELSE IF total # NoDecimal /\ subtotal # NoDecimal /\ vat = NoDecimal
            THEN [invoice EXCEPT !.VatAmount = Decimal(subtotal[1] - total[1])]
            ELSE invoice
    IN IF /\ derived.VatAmount # NoDecimal
          /\ derived.TotalAmount # NoDecimal
          /\ derived.VatAmount[1] >= derived.TotalAmount[1]
       THEN [derived EXCEPT !.VatAmount = NoDecimal]
       ELSE derived

\* _calculate_missing_vat_values.  The division by Decimal("100") is exact;
\* the amounts of the model are whole units, so that \div is exact too.
calculate_missing_vat_values(invoice) ==
    LET total == invoice.TotalAmount
        vat == invoice.VatAmount
        subtotal == invoice.TotalExcludingVat
        rate == invoice.VatRate
        derived ==
            IF total # NoDecimal /\ vat # NoDecimal /\ subtotal = NoDecimal
            THEN [invoice EXCEPT !.TotalExcludingVat = Decimal(total[1] - vat[1])]
            ELSE IF subtotal # NoDecimal /\ vat # NoDecimal /\ total = NoDecimal
            THEN [invoice EXCEPT !.TotalAmount = Decimal(subtotal[1] + vat[1])]
            ELSE IF subtotal # NoDecimal /\ rate # NoDecimal /\ total = NoDecimal
            THEN [invoice EXCEPT
                    !.VatAmount = Decimal((subtotal[1] * rate[1]) \div 100),
                    !.TotalAmount = Decimal(subtotal[1] + (subtotal[1] * rate[1]) \div 100)]
            ELSE IF total # NoDecimal /\ subtotal # NoDecimal /\ vat = NoDecimal
            THEN [invoice EXCEPT !.VatAmount = Decimal(total[1] - subtotal[1])]
            ELSE invoice
    IN IF /\ derived.VatAmount # NoDecimal
          /\ derived.TotalAmount # NoDecimal
          /\ derived.VatAmount[1] >= derived.TotalAmount[1]
       THEN [derived EXCEPT !.VatAmount = NoDecimal]
       ELSE derived

\* The weights of _calculate_confidence and max_score, in half points.
WeightInvoiceNumber == 2
WeightVendorName == 2
WeightInvoiceDateRaw == 3
WeightDueDateRaw == 1
WeightTotalAmount == 4
WeightVatAmount == 2
WeightCurrency == 1
WeightLineItems == 1
MaxScore == 16

\* The sum of the weights of the fields that are present.
PresenceScore(invoice) ==
      (IF Truthy(invoice.InvoiceNumber) THEN WeightInvoiceNumber ELSE 0)
    + (IF Truthy(invoice.VendorName) THEN WeightVendorName ELSE 0)
    + (IF NonBlank(invoice.InvoiceDateRaw) THEN WeightInvoiceDateRaw ELSE 0)
    + (IF NonBlank(invoice.DueDateRaw) THEN WeightDueDateRaw ELSE 0)
    + (IF invoice.TotalAmount # NoDecimal THEN WeightTotalAmount ELSE 0)
    + (IF invoice.VatAmount # NoDecimal THEN WeightVatAmount ELSE 0)
    + (IF Truthy(invoice.Currency) THEN WeightCurrency ELSE 0)
    + (IF invoice.LineItems # <<>> THEN WeightLineItems ELSE 0)

\* _calculate_confidence: score / max_score, as a number of sixteenths.
calculate_confidence(invoice) == (PresenceScore(invoice) * 16) \div MaxScore

\* Lines 156 to 167 of _parse_internal, in the order of the code: the VAT
\* values, the currency fallback, the line items, the confidence and only
\* then the fallback of InvoiceDateRaw to the email date.
post_process(invoice, detected_currency, line_items, email_date) ==
    LET with_vat == calculate_missing_vat_values(invoice)
        with_currency ==
            IF ~Truthy(with_vat.Currency)
            THEN [with_vat EXCEPT !.Currency = detected_currency]
            ELSE with_vat
        with_items == [with_currency EXCEPT !.LineItems = line_items]
        with_confidence ==
            [with_items EXCEPT !.Confidence = calculate_confidence(with_items)]
    IN IF ~NonBlank(with_confidence.InvoiceDateRaw) /\ Truthy(email_date)
       THEN [with_confidence EXCEPT !.InvoiceDateRaw = email_date]
       ELSE with_confidence

\* A plausible slip: the warning tag is left out.
parsing_error_invoice_NoWarning(extraction) ==
    ParsedInvoice(BestText(extraction), 0, <<>>)

\* What the except branch of ParseInvoice returns.
parsing_error_invoice(extraction) ==
    ParsedInvoice(BestText(extraction), 0, <<"ParsingError">>)

(***************************************************************************)
(* SpecParse: one call of InvoiceParsingFacade.ParseInvoice or of          *)
(* UnifiedInvoiceParser.Parse.  What the aggregator and the parsers return *)
(* for each field is drawn from small sets: a string or None, an amount of *)
(* 1..MaxAmount units of 1.00 (0 too for the VAT, which                    *)
(* SwedishReverseVatExtractor lets through), a rate.                       *)
(***************************************************************************)
MaxAmount == 2
Amounts == {Decimal(100 * k) : k \in 1..MaxAmount}
VatAmounts == Amounts \cup {Decimal(0)}
Rates == {Decimal(0), Decimal(25)}
EmailValues == {NoneVal, " ", "x"}
EmailEnvelopes ==
    {[From |-> NoneVal, Subject |-> NoneVal, Body |-> NoneVal],
     [From |-> " ", Subject |-> " ", Body |-> " "],
     [From |-> "x", Subject |-> NoneVal, Body |-> NoneVal],
     [From |-> NoneVal, Subject |-> " ", Body |-> "x"]}
NoParsed == [TotalAmount |-> NoDecimal, VatAmount |-> NoDecimal,
             TotalExcludingVat |-> NoDecimal, VatRate |-> NoDecimal]

ParseIdle ==
    /\ p_pc = "idle"
    /\ p_entry = NoneVal
    /\ p_extraction = NoneVal
    /\ p_email = NoneVal
    /\ p_parsed = NoParsed
    /\ p_threw = FALSE
    /\ p_out = NoneVal

ParseStart ==
    /\ p_pc = "call"
    /\ p_entry \in {"facade", "direct"}
    /\ p_extraction \in ExtractionKinds
    /\ p_email \in EmailEnvelopes
    /\ p_parsed = NoParsed
    /\ p_threw = FALSE
    /\ p_out = NoneVal

\* ParseInvoice, lines 21 to 24: no extraction or no variants.
FacadeNoVariants ==
    /\ p_pc = "call"
    /\ p_entry = "facade"
    /\ ~HasVariants(p_extraction)
    /\ p_out' = ParsedInvoice(NoneVal, 0, <<>>)
    /\ p_pc' = "returned"
    /\ UNCHANGED <<p_entry, p_extraction, p_email, p_parsed, p_threw>>
    /\ UNCHANGED parseOthers

\* ParseInvoice, lines 26 to 37: the call of Parse inside the try.
FacadeCallsParse ==
    /\ p_pc = "call"
    /\ p_entry = "facade"
    /\ HasVariants(p_extraction)
    /\ p_pc' = "parse"
    /\ UNCHANGED <<p_entry, p_extraction, p_email, p_parsed, p_threw, p_out>>
    /\ UNCHANGED parseOthers

\* A caller calls UnifiedInvoiceParser.Parse itself.
DirectCallsParse ==
    /\ p_pc = "call"
    /\ p_entry = "direct"
    /\ p_pc' = "parse"
    /\ UNCHANGED <<p_entry, p_extraction, p_email, p_parsed, p_threw, p_out>>
    /\ UNCHANGED parseOthers

\* _parse_internal, lines 58 to 73: no text document at all.
ParseNoDocuments ==
    /\ p_pc = "parse"
    /\ ~has_text_documents(p_extraction,
            build_email_document(p_email.From, p_email.Subject, p_email.Body))
    /\ p_out' = ParsedInvoice(BestText(p_extraction), 0, <<>>)
    /\ p_pc' = "returned"
    /\ UNCHANGED <<p_entry, p_extraction, p_email, p_parsed, p_threw>>
    /\ UNCHANGED parseOthers

\* _parse_internal, lines 58 to 94: there are documents, the contexts are
\* built and the extractors are about to run.
ParseBuildsContexts ==
    /\ p_pc = "parse"
    /\ has_text_documents(p_extraction,
            build_email_document(p_email.From, p_email.Subject, p_email.Body))
    /\ p_pc' = "extract"
    /\ UNCHANGED <<p_entry, p_extraction, p_email, p_parsed, p_threw, p_out>>
    /\ UNCHANGED parseOthers

\* _parse_internal, lines 96 to 167: every extractor returns, the fields
\* are set, post-processed and the invoice is returned (through the facade
\* unchanged, if it was the caller).
ParseExtractsAndReturns ==
    /\ p_pc = "extract"
    /\ \E invoice_number, currency, invoice_date_raw, due_date_raw, vendor_name \in {NoneVal, "x"},
          total_amount \in Amounts \cup {NoDecimal},
          vat_amount \in VatAmounts \cup {NoDecimal},
          vat_rate \in Rates \cup {NoDecimal},
          total_excluding_vat \in Amounts \cup {NoDecimal},
          detected_currency \in {NoneVal, "SEK"},
          line_items \in {<<>>, <<"item">>},
          email_date \in {NoneVal, "2024-06-01"} :
          LET document == build_email_document(p_email.From, p_email.Subject, p_email.Body)
              invoice == [initial_invoice(p_extraction, document) EXCEPT
                             !.InvoiceNumber = invoice_number,
                             !.Currency = currency,
                             !.TotalAmount = total_amount,
                             !.InvoiceDateRaw = invoice_date_raw,
                             !.DueDateRaw = due_date_raw,
                             !.VatAmount = vat_amount,
                             !.VatRate = vat_rate,
                             !.TotalExcludingVat = total_excluding_vat,
                             !.VendorName = vendor_name]
          IN /\ p_parsed' = [TotalAmount |-> total_amount, VatAmount |-> vat_amount,
                             TotalExcludingVat |-> total_excluding_vat,
                             VatRate |-> vat_rate]
             /\ p_out' = post_process(invoice, detected_currency, line_items, email_date)
    /\ p_pc' = "returned"
    /\ UNCHANGED <<p_entry, p_extraction, p_email, p_threw>>
    /\ UNCHANGED parseOthers

\* _parse_internal, lines 96 to 154: an extractor raises.
ExtractorRaises ==
    /\ p_pc = "extract"
    /\ p_threw' = TRUE
    /\ p_pc' = "exception"
    /\ UNCHANGED <<p_entry, p_extraction, p_email, p_parsed, p_out>>
    /\ UNCHANGED parseOthers

\* ParseInvoice, lines 38 to 45: the except branch.
FacadeCatches ==
    /\ p_pc = "exception"
    /\ p_entry = "facade"
    /\ p_out' = parsing_error_invoice(p_extraction)
    /\ p_pc' = "returned"
    /\ UNCHANGED <<p_entry, p_extraction, p_email, p_parsed, p_threw>>
    /\ UNCHANGED parseOthers

\* Parse and _parse_internal have no handler: the exception leaves Parse.
ParsePropagates ==
    /\ p_pc = "exception"
    /\ p_entry = "direct"
    /\ p_pc' = "raised"
    /\ UNCHANGED <<p_entry, p_extraction, p_email, p_parsed, p_threw, p_out>>
    /\ UNCHANGED parseOthers

(***************************************************************************)
(* parsing/unified_invoice_parser.py: the documents of _parse_internal.    *)
(*                                                                         *)
(* A section is [Name, Text].  A text is a token: " " is a blank text,     *)
(* the text of the i-th variant is SectionTexts[i] otherwise.              *)
(***************************************************************************)
preferred_order ==
    <<"asynkron-textlayout", "Docnet-PDFium", "PdfPig-Default",
      "PdfPig-Layout", "PdfPig-NearestNeighbour", "default">>

\* str.lower() on the names that occur.
lower(name) ==
    CASE name = "Docnet-PDFium" -> "docnet-pdfium"
      [] name = "PdfPig-Default" -> "pdfpig-default"
      [] name = "PdfPig-Layout" -> "pdfpig-layout"
      [] name = "PdfPig-NearestNeighbour" -> "pdfpig-nearestneighbour"
      [] name = "DEFAULT" -> "default"
      [] OTHER -> name

\* for section in sections: if section.Name.lower() == name.lower(): ...
RECURSIVE texts_named(_, _, _)
texts_named(sections, name, i) ==
    IF i > Len(sections) THEN <<>>
    ELSE (IF lower(sections[i].Name) = lower(name) THEN <<sections[i].Text>> ELSE <<>>)
             \o texts_named(sections, name, i + 1)

\* for name in preferred_order: ...
RECURSIVE preferred_loop(_, _)
preferred_loop(sections, n) ==
    IF n > Len(preferred_order) THEN <<>>
    ELSE texts_named(sections, preferred_order[n], 1) \o preferred_loop(sections, n + 1)

section_texts(sections) == [i \in 1..Len(sections) |-> sections[i].Text]

\* A plausible slip: the loops are nested the other way round, which keeps
\* the matching variants in their input order.
select_preferred_pdf_documents_InputOrder(sections) ==
    LET matching == SelectSeq(sections,
            LAMBDA section : \E n \in 1..Len(preferred_order) :
                                lower(section.Name) = lower(preferred_order[n]))
    IN IF sections = <<>> THEN <<>>
       ELSE IF matching = <<>> THEN section_texts(sections)
       ELSE section_texts(matching)

\* _select_preferred_pdf_documents
select_preferred_pdf_documents(sections) ==
    IF sections = <<>> THEN <<>>
    ELSE LET preferred == preferred_loop(sections, 1)
         IN IF preferred = <<>> THEN section_texts(sections) ELSE preferred

\* pdf_documents: the texts of the sections that are not blank (lines 65-68).
pdf_documents_of(sections) ==
    section_texts(SelectSeq(sections, LAMBDA section : NonBlank(section.Text)))

\* text_documents: the email document, if any, then pdf_documents.
text_documents_of(sections, email_document) ==
    (IF Truthy(email_document) THEN <<email_document>> ELSE <<>>)
        \o pdf_documents_of(sections)

(***************************************************************************)
(* SpecSelect: _parse_internal up to line 92 on up to MaxSections sections. *)
(***************************************************************************)
MaxSections == 3
SectionNames ==
    {"asynkron-textlayout", "Docnet-PDFium", "docnet-pdfium",
     "PdfPig-Layout", "DEFAULT", "tesseract"}
SectionTexts == <<"text1", "text2", "text3", "text4", "text5">>

\* The lists of sections: the i-th has a name and its own text or a blank one.
SectionLists ==
    UNION {{[i \in 1..n |-> [Name |-> names[i],
                             Text |-> IF i \in blank THEN " " ELSE SectionTexts[i]]] :
                names \in [1..n -> SectionNames], blank \in SUBSET (1..n)} :
           n \in 0..MaxSections}

SelectStart ==
    /\ s_pc = "input"
    /\ s_sections \in SectionLists
    /\ s_email \in {NoneVal, "email text"}
    /\ s_preferred = <<>>
    /\ s_documents = <<>>
    /\ s_primary = NoneVal

\* Lines 58 to 73: there is no text document, nothing is extracted.
SelectReturnsEarly ==
    /\ s_pc = "input"
    /\ text_documents_of(s_sections, s_email) = <<>>
    /\ s_pc' = "returned"
    /\ UNCHANGED <<s_sections, s_email, s_preferred, s_documents, s_primary>>
    /\ UNCHANGED selectOthers

\* Lines 58 to 92: the documents that the extractors are given.
SelectDocuments ==
    /\ s_pc = "input"
    /\ text_documents_of(s_sections, s_email) # <<>>
    /\ LET text_documents == text_documents_of(s_sections, s_email)
           pdf_documents == pdf_documents_of(s_sections)
           preferred_pdf_documents == select_preferred_pdf_documents(s_sections)
           \* "\n".join(text_documents) is looked at only when it is the
           \* email document alone
           combined_text == text_documents[1]
       IN /\ s_preferred' = preferred_pdf_documents
          /\ s_primary' =
                IF preferred_pdf_documents # <<>> THEN preferred_pdf_documents[1]
                ELSE IF pdf_documents # <<>> THEN pdf_documents[1]
                ELSE combined_text
          /\ s_documents' =
                IF preferred_pdf_documents # <<>> THEN preferred_pdf_documents
                ELSE IF pdf_documents # <<>> THEN pdf_documents
                ELSE text_documents
    /\ s_pc' = "selected"
    /\ UNCHANGED <<s_sections, s_email>>
    /\ UNCHANGED selectOthers

\* The place of a name in the fixed order, 0 if it is not in it.
OrderRank(name) ==
    IF \E n \in 1..Len(preferred_order) : lower(preferred_order[n]) = lower(name)
    THEN CHOOSE n \in 1..Len(preferred_order) : lower(preferred_order[n]) = lower(name)
    ELSE 0

MatchingSections == {i \in 1..Len(s_sections) : OrderRank(s_sections[i].Name) > 0}

\* i comes before j in the arrangement: by the fixed order of the names,
\* then by the input order.
ArrangedBefore(i, j) ==
    \/ OrderRank(s_sections[i].Name) < OrderRank(s_sections[j].Name)
    \/ /\ OrderRank(s_sections[i].Name) = OrderRank(s_sections[j].Name)
       /\ i < j

\* The texts of the matching variants in the fixed order.
ArrangedTexts ==
    [k \in 1..Cardinality(MatchingSections) |->
        LET i == CHOOSE i \in MatchingSections :
                     Cardinality({j \in MatchingSections : ArrangedBefore(j, i)}) = k - 1
        IN s_sections[i].Text]

Lowercase ==
    {"a", "b", "c", "d", "e", "f", "g", "h", "i", "j", "k", "l", "m",
     "n", "o", "p", "q", "r", "s", "t", "u", "v", "w", "x", "y", "z"}

\* str.endswith(suffixes) for one-character suffixes
endswith(line, suffixes) == line # <<>> /\ line[Len(line)] \in suffixes

\* str.rstrip()
RECURSIVE rstrip(_)
rstrip(line) ==
    IF line # <<>> /\ line[Len(line)] \in Whitespace
    THEN rstrip(SubSeq(line, 1, Len(line) - 1)) ELSE line

\* str.lstrip()
RECURSIVE lstrip(_)
lstrip(line) ==
    IF line # <<>> /\ Head(line) \in Whitespace THEN lstrip(Tail(line)) ELSE line

\* c in line
contains(line, c) == \E i \in 1..Len(line) : line[i] = c

\* sep.join(lines)
RECURSIVE join(_, _)
join(lines, sep) ==
    IF lines = <<>> THEN <<>>
    ELSE IF Len(lines) = 1 THEN lines[1]
    ELSE lines[1] \o sep \o join(Tail(lines), sep)

\* A plausible slip: the colon is not added to the bare label.
label_lines_NoColon(lines) ==
    LET non_empty == SelectSeq(lines, LAMBDA line : line # <<>>)
    IN IF Len(non_empty) = 2
       THEN LET first == non_empty[1]
            IN IF /\ ~endswith(first, {":"})
                  /\ ~contains(first, ":")
                  /\ first[1] \notin Digits
               THEN <<first, non_empty[2]>>
               ELSE lines
       ELSE lines

\* normalize_block, lines 134-138: exactly two non-empty lines of which the
\* first looks like a label.
label_lines(lines) ==
    LET non_empty == SelectSeq(lines, LAMBDA line : line # <<>>)
    IN IF Len(non_empty) = 2
       THEN LET first == non_empty[1]
            IN IF /\ ~endswith(first, {":"})
                  /\ ~contains(first, ":")
                  /\ first[1] \notin Digits
               THEN <<first \o <<":">>, non_empty[2]>>
               ELSE lines
       ELSE lines

\* normalize_block, lines 140-149: the while loop, i counting from 1.
RECURSIVE join_colon_lines_loop(_, _, _)
join_colon_lines_loop(lines, i, result) ==
    IF i > Len(lines) THEN result
    ELSE IF endswith(lines[i], {":"}) /\ i + 1 <= Len(lines) /\ lines[i + 1] # <<>>
    THEN join_colon_lines_loop(lines, i + 2,
             Append(result, lines[i] \o <<" ">> \o lines[i + 1]))
    ELSE join_colon_lines_loop(lines, i + 1, Append(result, lines[i]))

join_colon_lines(lines) == join_colon_lines_loop(lines, 1, <<>>)

separators == {":", ")", "]", "}", ","}

\* A plausible slip: the minus sign is forgotten.
RECURSIVE pull_up_numbers_loop_DigitsOnly(_, _, _)
pull_up_numbers_loop_DigitsOnly(result, k, final) ==
    IF k > Len(result) THEN final
    ELSE LET line == result[k]
         IN IF /\ line # <<>>
               /\ final # <<>>
               /\ final[Len(final)] # <<>>
               /\ line[1] \in Digits
               /\ endswith(rstrip(final[Len(final)]), separators)
            THEN pull_up_numbers_loop_DigitsOnly(result, k + 1,
                     [final EXCEPT ![Len(final)] = @ \o <<" ">> \o line])
            ELSE pull_up_numbers_loop_DigitsOnly(result, k + 1, Append(final, line))

\* normalize_block, lines 151-162: for line in result.
RECURSIVE pull_up_numbers_loop(_, _, _)
pull_up_numbers_loop(result, k, final) ==
    IF k > Len(result) THEN final
    ELSE LET line == result[k]
         IN IF /\ line # <<>>
               /\ final # <<>>
               /\ final[Len(final)] # <<>>
               /\ (line[1] \in Digits \/ line[1] = "-")
               /\ endswith(rstrip(final[Len(final)]), separators)
            THEN pull_up_numbers_loop(result, k + 1,
                     [final EXCEPT ![Len(final)] = @ \o <<" ">> \o line])
            ELSE pull_up_numbers_loop(result, k + 1, Append(final, line))

end_punctuation == {".", "!", "?", ":", ";"}

\* normalize_block, lines 166-178: for line in final.
RECURSIVE unwrap_lines_loop(_, _, _)
unwrap_lines_loop(final, k, unwrapped) ==
    IF k > Len(final) THEN unwrapped
    ELSE LET line == final[k]
         IN IF /\ line # <<>>
               /\ unwrapped # <<>>
               /\ unwrapped[Len(unwrapped)] # <<>>
               /\ ~endswith(rstrip(unwrapped[Len(unwrapped)]), end_punctuation)
               /\ (line[1] \in Lowercase \/ line[1] \in Digits)
            THEN unwrap_lines_loop(final, k + 1,
                     [unwrapped EXCEPT ![Len(unwrapped)] = @ \o <<" ">> \o line])
            ELSE unwrap_lines_loop(final, k + 1, Append(unwrapped, line))

normalize_block(lines) ==
    LET result == join_colon_lines(label_lines(lines))
        final == pull_up_numbers_loop(result, 1, <<>>)
        unwrapped == unwrap_lines_loop(final, 1, <<>>)
    IN join(unwrapped, <<"\n">>)

(***************************************************************************)
(* SpecNorm: one call of normalize_block on up to MaxNormLines lines.      *)
(***************************************************************************)
MaxNormLines == 3
NormWords ==
    {<<>>, <<"a">>, <<"A">>, <<"a", ":">>, <<"a", ":", "b">>, <<"1">>,
     <<"-", "1">>, <<"a", ")">>, <<"a", ",">>, <<"a", ")", " ">>, <<"a", ".">>}

NormStart ==
    /\ n_pc = "input"
    /\ n_lines \in SeqsUpTo(NormWords, MaxNormLines)
    /\ n_out = <<>>

NormalizeBlock ==
    /\ n_pc = "input"
    /\ n_out' = normalize_block(n_lines)
    /\ n_pc' = "done"
    /\ UNCHANGED n_lines
    /\ UNCHANGED normOthers

NormNonEmpty == SelectSeq(n_lines, LAMBDA line : line # <<>>)
NormOutLines == split(n_out, "\n")

\* C15: a block with exactly two non-empty lines whose first line has no
\* ':' and does not start with a digit becomes the one line
\* '<first>: <second>'.
C15_BareLabelGetsColon ==
    (/\ n_pc = "done"
     /\ Len(NormNonEmpty) = 2
     /\ ~contains(NormNonEmpty[1], ":")
     /\ NormNonEmpty[1][1] \notin Digits) =>
        n_out = NormNonEmpty[1] \o <<":", " ">> \o NormNonEmpty[2]

\* A bare label above its value, with an empty line between them.
C15_Witness ==
    /\ n_pc = "done"
    /\ n_lines = <<<<"A">>, <<>>, <<"a", ".">>>>
    /\ n_out = <<"A", ":", " ", "a", ".">>

\* C16: in the output of normalize_block no line that ends with ':' is
\* directly followed by a non-empty line, for blocks of any number of lines.
C16_NoColonLineBeforeNonEmptyLine ==
    n_pc = "done" =>
        \A i \in 1..(Len(NormOutLines) - 1) :
            ~(endswith(NormOutLines[i], {":"}) /\ NormOutLines[i + 1] # <<>>)

StartsNumber(line) == line # <<>> /\ (line[1] \in Digits \/ line[1] = "-")

\* The lines of the input that start with a digit or '-' and directly
\* follow a non-empty line ending with a separator.
NumberLines ==
    {i \in 2..Len(n_lines) :
        /\ StartsNumber(n_lines[i])
        /\ n_lines[i - 1] # <<>>
        /\ endswith(rstrip(n_lines[i - 1]), separators)}

startswith(line, prefix) ==
    Len(line) >= Len(prefix) /\ SubSeq(line, 1, Len(prefix)) = prefix

\* str.index(c), from 0
index(line, c) ==
    (CHOOSE i \in 1..Len(line) : line[i] = c /\ \A j \in 1..(i - 1) : line[j] # c) - 1

\* " " * n
spaces(n) == [i \in 1..n |-> " "]

\* sub in text
occurs(text, sub) ==
    \E i \in 1..(Len(text) - Len(sub) + 1) : SubSeq(text, i, i + Len(sub) - 1) = sub

is_label_line(line) ==
    IF ~contains(line, ":") \/ strip(line) = <<>> THEN FALSE
    ELSE IF \/ startswith(line, <<"h", "t", "t", "p", ":", "/", "/">>)
            \/ startswith(line, <<"h", "t", "t", "p", "s", ":", "/", "/">>)
    THEN FALSE
    ELSE LET colon_pos == index(line, ":")
         IN ~(/\ colon_pos >= 2
              /\ line[colon_pos] = "/"
              /\ line[colon_pos - 1] = "/")

\* A plausible slip: the width of the first label is taken for the widest.
label_width_First(group) == index(group[1], ":")

\* align_key_value_groups, lines 39-42: max_label_width of a group.
RECURSIVE label_width(_)
label_width(group) ==
    IF group = <<>> THEN 0
    ELSE LET rest == label_width(Tail(group))
             colon_pos == index(Head(group), ":")
         IN IF colon_pos > rest THEN colon_pos ELSE rest

\* align_key_value_groups, lines 45-50: the lines of a group, reformatted.
align_group(group) ==
    LET max_label_width == label_width(group)
    IN [k \in 1..Len(group) |->
           LET line == group[k]
               colon_pos == index(line, ":")
               label == SubSeq(line, 1, colon_pos)
               value == lstrip(SubSeq(line, colon_pos + 2, Len(line)))
               padding == spaces(max_label_width - Len(label))
           IN label \o padding \o <<":", " ">> \o value]

\* The inner while of align_key_value_groups: where the group that starts
\* at i ends.
RECURSIVE group_end(_, _)
group_end(lines, i) ==
    IF i <= Len(lines) /\ is_label_line(lines[i]) THEN group_end(lines, i + 1) ELSE i

\* The outer while of align_key_value_groups.
RECURSIVE align_loop(_, _, _)
align_loop(lines, i, result) ==
    IF i > Len(lines) THEN result
    ELSE LET next == group_end(lines, i)
             group == SubSeq(lines, i, next - 1)
         IN IF Len(group) >= 2 THEN align_loop(lines, next, result \o align_group(group))
            ELSE IF group # <<>> THEN align_loop(lines, next, result \o group)
            ELSE align_loop(lines, i + 1, Append(result, lines[i]))

align_key_value_groups(text) ==
    join(align_loop(split(text, "\n"), 1, <<>>), <<"\n">>)

\* text.replace("\n\n\n", "\n\n"): every occurrence, from the left.
RECURSIVE replace_three_newlines(_)
replace_three_newlines(text) ==
    IF text = <<>> THEN <<>>
    ELSE IF startswith(text, <<"\n", "\n", "\n">>)
    THEN <<"\n", "\n">> \o replace_three_newlines(SubSeq(text, 4, Len(text)))
    ELSE <<Head(text)>> \o replace_three_newlines(Tail(text))

RECURSIVE collapse_blank_lines(_)
collapse_blank_lines(text) ==
    IF occurs(text, <<"\n", "\n", "\n">>)
    THEN collapse_blank_lines(replace_three_newlines(text))
    ELSE text

\* The while of collapse_between_labels.
RECURSIVE collapse_between_labels_loop(_, _, _)
collapse_between_labels_loop(lines, i, result) ==
    IF i > Len(lines) THEN result
    ELSE IF /\ strip(lines[i]) = <<>>
            /\ result # <<>>
            /\ i + 1 <= Len(lines)
            /\ contains(result[Len(result)], ":")
            /\ contains(lines[i + 1], ":")
    THEN collapse_between_labels_loop(lines, i + 1, result)
    ELSE collapse_between_labels_loop(lines, i + 1, Append(result, lines[i]))

collapse_between_labels(text) ==
    join(collapse_between_labels_loop(split(text, "\n"), 1, <<>>), <<"\n">>)

format_output(blocks) ==
    align_key_value_groups(
        collapse_between_labels(
            collapse_blank_lines(join(blocks, <<"\n", "\n">>))))

(***************************************************************************)
(* SpecFmt: one call of format_output on blocks that hold up to            *)
(* MaxFmtLines lines between them.                                         *)
(***************************************************************************)
MaxFmtLines == 3
FmtWords ==
    {<<>>,
     <<"a">>,
     <<"A", ":", " ", "1">>,
     <<"B", "B", ":", " ", "2">>,
     <<"C", "C", "C", ":", "3">>,
     <<"u", ":", " ", "h", "t", "t", "p", ":", "/", "/", "x">>,
     <<"h", "t", "t", "p", ":", "/", "/", "x">>,
     <<"s", "e", "e", " ", "h", "t", "t", "p", ":", "/", "/", "x">>,
     <<"f", "t", "p", ":", "/", "/", "x">>}
UrlTokens == {<<"h", "t", "t", "p", ":", "/", "/", "x">>, <<"f", "t", "p", ":", "/", "/", "x">>}

\* The lines cut into blocks after the lines in cuts.
RECURSIVE blocks_of(_, _, _, _)
blocks_of(lines, cuts, i, block) ==
    IF i > Len(lines) THEN <<join(block, <<"\n">>)>>
    ELSE IF i - 1 \in cuts
    THEN <<join(block, <<"\n">>)>> \o blocks_of(lines, cuts, i + 1, <<lines[i]>>)
    ELSE blocks_of(lines, cuts, i + 1, Append(block, lines[i]))

FmtBlockLists ==
    {<<>>} \cup
    {blocks_of(lines, cuts, 2, <<lines[1]>>) :
        lines \in SeqsUpTo(FmtWords, MaxFmtLines) \ {<<>>},
        cuts \in SUBSET (1..(MaxFmtLines - 1))}

FmtStart ==
    /\ f_pc = "input"
    /\ f_blocks \in FmtBlockLists
    /\ f_output = <<>>

FormatOutput ==
    /\ f_pc = "input"
    /\ f_output' = format_output(f_blocks)
    /\ f_pc' = "done"
    /\ UNCHANGED f_blocks
    /\ UNCHANGED fmtOthers

\* The lines that align_key_value_groups is given, and the lines it returns.
FmtInLines ==
    split(collapse_between_labels(collapse_blank_lines(join(f_blocks, <<"\n", "\n">>))), "\n")
FmtOutLines == split(f_output, "\n")

\* A colon that is not preceded by '//' and not in a line starting with
\* 'http://' or 'https://': what the formatter takes for a label colon.
LabelLine(line) ==
    /\ contains(line, ":")
    /\ \E i \in 1..Len(line) : line[i] \notin Whitespace
    /\ ~startswith(line, <<"h", "t", "t", "p", ":", "/", "/">>)
    /\ ~startswith(line, <<"h", "t", "t", "p", "s", ":", "/", "/">>)
    /\ LET c == index(line, ":") + 1
       IN ~(c >= 3 /\ line[c - 1] = "/" /\ line[c - 2] = "/")

\* The run of consecutive label lines that line i of the input belongs to.
FmtRun(i) ==
    {j \in 1..Len(FmtInLines) :
        \A k \in (IF i < j THEN i ELSE j)..(IF i < j THEN j ELSE i) :
            LabelLine(FmtInLines[k])}

C14_UrlsUnchanged ==
    f_pc = "done" =>
        \A url \in UrlTokens :
            (\E b \in 1..Len(f_blocks) : occurs(f_blocks[b], url)) => occurs(f_output, url)

(***************************************************************************)
(* parser.py: extract_block, detect_blocks, process_document, extract.     *)
(*                                                                         *)
(* An exception that leaves a function is the value Raised in place of     *)
(* its text (<<Raised>> in place of its list of lines).                    *)
(***************************************************************************)
Raised == <<"IndexError">>

\* "".join(matrix[r][start_col : end_col + 1]).strip()
row_text(matrix, r, start_col, end_col) ==
    strip([k \in 1..(end_col - start_col + 1) |-> matrix[r][start_col + k - 1]])

\* A plausible slip: 'while not lines[0]' for 'while lines and not lines[0]'.
trim_guard_Missing(lines) == TRUE

\* The test 'lines and' of the two while loops of extract_block.
trim_guard(lines) == lines # <<>>

\* while lines and not lines[0]: lines.pop(0)
RECURSIVE trim_leading(_)
trim_leading(lines) ==
    IF ~trim_guard(lines) THEN lines
    ELSE IF lines = <<>> THEN <<Raised>>
    ELSE IF lines[1] = <<>> THEN trim_leading(Tail(lines))
    ELSE lines

\* while lines and not lines[-1]: lines.pop()
RECURSIVE trim_trailing(_)
trim_trailing(lines) ==
    IF ~trim_guard(lines) THEN lines
    ELSE IF lines = <<>> THEN <<Raised>>
    ELSE IF lines[Len(lines)] = <<>> THEN trim_trailing(SubSeq(lines, 1, Len(lines) - 1))
    ELSE lines

extract_block(matrix, start_row, end_row, start_col, end_col) ==
    LET lines == [k \in 1..(end_row - start_row + 1) |->
                     row_text(matrix, start_row + k - 1, start_col, end_col)]
        leading == trim_leading(lines)
        trimmed == IF leading = <<Raised>> THEN leading ELSE trim_trailing(leading)
    IN IF trimmed = <<Raised>> THEN Raised ELSE normalize_block(trimmed)

\* The content extract_block returns for each rectangle of detect_blocks.
block_contents(matrix, min_gap) ==
    LET rects == detect_blocks(matrix, min_gap)
    IN [k \in 1..Len(rects) |->
           extract_block(matrix, rects[k][1], rects[k][2], rects[k][3], rects[k][4])]

\* detect_blocks: if content.strip(): blocks.append(content)
process_document(text, min_gap) ==
    LET contents == block_contents(text_to_matrix(text), min_gap)
    IN IF \E k \in 1..Len(contents) : contents[k] = Raised THEN <<Raised>>
       ELSE SelectSeq(contents, LAMBDA content : strip(content) # <<>>)

(***************************************************************************)
(* SpecExtract: extract(text, min_gap) on a text of up to MaxExtractLines  *)
(* lines, then extract applied once more to the text it returned.          *)
(***************************************************************************)
MaxExtractLines == 3
ExtractWords ==
    {<<>>,
     <<" ">>,
     <<"a">>,
     <<"a", ":">>,
     <<"1">>,
     <<"a", " ", "b">>,
     <<"a", " ", " ", "b">>,
     <<"\t">>}

ExtractStart ==
    /\ e_pc = "input"
    /\ \E lines \in SeqsUpTo(ExtractWords, MaxExtractLines) : e_text = join(lines, <<"\n">>)
    /\ e_min_gap \in 1..MaxMinGap
    /\ e_round = 1
    /\ e_rects = <<>>
    /\ e_blocks = <<>>
    /\ e_output = <<>>
    /\ e_first = <<>>

\* blocks = process_document(text, min_gap)
ExtractProcessDocument ==
    /\ e_pc = "input"
    /\ LET blocks == process_document(e_text, e_min_gap)
       IN IF blocks = <<Raised>>
          THEN /\ e_pc' = "raised"
               /\ UNCHANGED <<e_rects, e_blocks>>
          ELSE /\ e_pc' = "blocks"
               /\ e_rects' = detect_blocks(text_to_matrix(e_text), e_min_gap)
               /\ e_blocks' = blocks
    /\ UNCHANGED <<e_text, e_min_gap, e_round, e_output, e_first>>
    /\ UNCHANGED extractOthers

\* return format_output(blocks)
ExtractFormatOutput ==
    /\ e_pc = "blocks"
    /\ e_output' = format_output(e_blocks)
    /\ e_pc' = "output"
    /\ UNCHANGED <<e_text, e_min_gap, e_round, e_rects, e_blocks, e_first>>
    /\ UNCHANGED extractOthers

\* The caller hands the output to extract again, with the same min_gap.
ExtractAgain ==
    /\ e_pc = "output"
    /\ e_round = 1
    /\ e_first' = e_output
    /\ e_text' = e_output
    /\ e_round' = 2
    /\ e_pc' = "input"
    /\ e_rects' = <<>>
    /\ e_blocks' = <<>>
    /\ UNCHANGED <<e_min_gap, e_output>>
    /\ UNCHANGED extractOthers

(***************************************************************************)
(* Regions of a text, from their description: a maximal run of non-blank   *)
(* rows crossed with a maximal run of columns that lie in no run of blank  *)
(* columns of width >= min_gap.  A cell is blank when it holds whitespace. *)
(***************************************************************************)
RegionBlankRow(m, r) == \A c \in DOMAIN m[r] : m[r][c] \in Whitespace

RegionSections(m) ==
    {s \in (DOMAIN m) \X (DOMAIN m) :
        /\ s[1] <= s[2]
        /\ \A r \in s[1]..s[2] : ~RegionBlankRow(m, r)
        /\ (s[1] - 1) \in DOMAIN m => RegionBlankRow(m, s[1] - 1)
        /\ (s[2] + 1) \in DOMAIN m => RegionBlankRow(m, s[2] + 1)}

RegionBlankCol(m, s, c) == \A r \in s[1]..s[2] : m[r][c] \in Whitespace

RegionGapCol(m, s, min_gap, c) ==
    \E a \in DOMAIN m[0], b \in DOMAIN m[0] :
        /\ a <= c /\ c <= b /\ b - a + 1 >= min_gap
        /\ \A k \in a..b : RegionBlankCol(m, s, k)

RegionColumns(m, s, min_gap) ==
    {cs \in (DOMAIN m[0]) \X (DOMAIN m[0]) :
        /\ cs[1] <= cs[2]
        /\ \A c \in cs[1]..cs[2] : ~RegionGapCol(m, s, min_gap, c)
        /\ (cs[1] - 1) \in DOMAIN m[0] => RegionGapCol(m, s, min_gap, cs[1] - 1)
        /\ (cs[2] + 1) \in DOMAIN m[0] => RegionGapCol(m, s, min_gap, cs[2] + 1)}

Regions(m, min_gap) ==
    UNION {{<<s[1], s[2], cs[1], cs[2]>> : cs \in RegionColumns(m, s, min_gap)} :
              s \in RegionSections(m)}

\* Top-to-bottom by section, left-to-right inside a section.
RegionBefore(a, b) == a[2] < b[1] \/ (a[1] = b[1] /\ a[4] < b[3])

RegionRank(regions, reg) == Cardinality({a \in regions : RegionBefore(a, reg)}) + 1

\* C12: process_document returns exactly one block per region, in the order
\* of the regions (sections top to bottom, columns left to right), each
\* block being the content of its region; a text with no blank row and no
\* blank column gives exactly one block.
C12_OneBlockPerRegion ==
    e_pc = "blocks" =>
        LET m == text_to_matrix(e_text)
            regions == Regions(m, e_min_gap)
        IN /\ Len(e_blocks) = Cardinality(regions)
           /\ \A reg \in regions :
                  /\ RegionRank(regions, reg) \in DOMAIN e_blocks
                  /\ e_blocks[RegionRank(regions, reg)]
                         = extract_block(m, reg[1], reg[2], reg[3], reg[4])
           /\ ( /\ DOMAIN m[0] # {}
                /\ \A r \in DOMAIN m : ~RegionBlankRow(m, r)
                /\ \A c \in DOMAIN m[0] : ~RegionBlankCol(m, <<0, len(m) - 1>>, c) )
              => Len(e_blocks) = 1

\* C18: layout extraction is idempotent: with s the output of extract on a
\* text, extract applied to s with the same min_gap returns s.
C18_ExtractIdempotent ==
    (e_pc = "output" /\ e_round = 2) => e_output = e_first

BlankText(text) == \A i \in DOMAIN text : text[i] \in {" ", "\n"}

\* C19: process_document and extract never raise, whatever the text and
\* whatever min_gap >= 1, and a text that is empty or made only of spaces and
\* newlines yields an empty block list.
C19_NeverRaisesAndBlankGivesNoBlocks ==
    /\ e_pc # "raised"
    /\ (e_pc \in {"blocks", "output"} /\ BlankText(e_text)) => e_blocks = <<>>

C19_Witness ==
    /\ e_pc = "output"
    /\ e_round = 1
    /\ e_text = <<" ", "\n", " ">>
    /\ e_blocks = <<>>
    /\ e_output = <<>>

(***************************************************************************)
(* Regular expressions, as Python's re module matches them: a pattern is   *)
(* a sequence of elements, matched left to right with backtracking; the    *)
(* alternatives of an element are tried longest first (every quantifier    *)
(* of the patterns modelled is greedy).  Positions are 1-based here.       *)
(***************************************************************************)
LowerLetters ==
    <<"a", "b", "c", "d", "e", "f", "g", "h", "i", "j", "k", "l", "m",
      "n", "o", "p", "q", "r", "s", "t", "u", "v", "w", "x", "y", "z">>
UpperLetters ==
    <<"A", "B", "C", "D", "E", "F", "G", "H", "I", "J", "K", "L", "M",
      "N", "O", "P", "Q", "R", "S", "T", "U", "V", "W", "X", "Y", "Z">>
upper_of == [c \in Lowercase |-> UpperLetters[CHOOSE i \in 1..26 : LowerLetters[i] = c]]
Digit_of == [d \in 0..9 |-> <<"0", "1", "2", "3", "4", "5", "6", "7", "8", "9">>[d + 1]]
Letters == Lowercase \cup {upper_of[c] : c \in Lowercase}
WordChars == Letters \cup Digits \cup {"_"}

\* \d{lo,hi}, captured when cap
rx_digits(lo, hi, cap) == [k |-> "d", lo |-> lo, hi |-> hi, cap |-> cap]
\* one character of the set
rx_char(set) == [k |-> "c", set |-> set]
\* an optional character of the set
rx_opt(set) == [k |-> "c?", set |-> set]
\* \s+
rx_spaces == [k |-> "s+"]
\* (?!\d)
rx_not_digit == [k |-> "!d"]
\* \b
rx_boundary == [k |-> "b"]
\* \s*
rx_spaces0 == [k |-> "s*"]
\* [set]+
rx_chars(set) == [k |-> "c+", set |-> set]
\* (?<!\d)
rx_not_after_digit == [k |-> "<!d"]
\* ^
rx_start == [k |-> "^"]
\* The opening or closing parenthesis of a group: its position is kept.
rx_mark == [k |-> "mark"]

\* A literal under re.IGNORECASE.
rx_literal_ignorecase(word) ==
    [i \in 1..Len(word) |->
        rx_char({word[i]} \cup (IF word[i] \in Lowercase THEN {upper_of[word[i]]} ELSE {}))]

\* The lengths an element may consume at pos, in the order they are tried.
RECURSIVE rx_down(_, _)
rx_down(hi, lo) == IF hi < lo THEN <<>> ELSE <<hi>> \o rx_down(hi - 1, lo)

rx_lengths(e, text, pos) ==
    LET left == Len(text) - pos + 1
    IN CASE e.k = "d" -> rx_down(IF e.hi < left THEN e.hi ELSE left, e.lo)
         [] e.k = "c" -> IF left >= 1 THEN <<1>> ELSE <<>>
         [] e.k = "c?" -> IF left >= 1 THEN <<1, 0>> ELSE <<0>>
         [] e.k = "s+" -> rx_down(left, 1)
         [] e.k = "s*" -> rx_down(left, 0)
         [] e.k = "c+" -> rx_down(left, 1)
         [] OTHER -> <<0>>

rx_word_at(text, i) == i >= 1 /\ i <= Len(text) /\ text[i] \in WordChars

rx_accepts(e, text, pos, n) ==
    CASE e.k = "d" -> \A i \in pos..(pos + n - 1) : text[i] \in Digits
      [] e.k = "c" -> text[pos] \in e.set
      [] e.k = "c?" -> n = 0 \/ text[pos] \in e.set
      [] e.k = "s+" -> \A i \in pos..(pos + n - 1) : text[i] \in Whitespace
      [] e.k = "!d" -> pos > Len(text) \/ text[pos] \notin Digits
      [] e.k = "b" -> rx_word_at(text, pos - 1) # rx_word_at(text, pos)
      [] e.k = "s*" -> \A i \in pos..(pos + n - 1) : text[i] \in Whitespace
      [] e.k = "c+" -> \A i \in pos..(pos + n - 1) : text[i] \in e.set
      [] e.k = "<!d" -> pos = 1 \/ text[pos - 1] \notin Digits
      [] e.k = "^" -> pos = 1
      [] e.k = "mark" -> TRUE

\* The match of pat[k..] at pos, as <<end, groups>>, or <<>> when there is
\* none: the alternatives of an element are tried in order, and the first
\* one the rest of the pattern matches after is taken.
RECURSIVE rx_match(_, _, _, _)
RECURSIVE rx_try(_, _, _, _, _)
rx_try(pat, k, text, pos, lengths) ==
    IF lengths = <<>> THEN <<>>
    ELSE LET n == Head(lengths)
             e == pat[k]
             rest == IF rx_accepts(e, text, pos, n)
                     THEN rx_match(pat, k + 1, text, pos + n)
                     ELSE <<>>
             group == IF e.k = "mark" THEN <<pos>>
                      ELSE IF e.k = "d" /\ e.cap
                      THEN <<SubSeq(text, pos, pos + n - 1)>> ELSE <<>>
         IN IF rest # <<>> THEN <<rest[1], group \o rest[2]>>
            ELSE rx_try(pat, k, text, pos, Tail(lengths))

rx_match(pat, k, text, pos) ==
    IF k > Len(pat) THEN <<pos, <<>>>>
    ELSE rx_try(pat, k, text, pos, rx_lengths(pat[k], text, pos))

\* re.search: the groups of the leftmost match, or <<>> when there is none
\* (every pattern searched here has a group).
RECURSIVE rx_search_from(_, _, _)
rx_search_from(pat, text, pos) ==
    IF pos > Len(text) + 1 THEN <<>>
    ELSE LET found == rx_match(pat, 1, text, pos)
         IN IF found # <<>> THEN found[2]
            ELSE rx_search_from(pat, text, pos + 1)

rx_search(pat, text) == rx_search_from(pat, text, 1)

(***************************************************************************)
(* parsing/date_parser.py                                                  *)
(***************************************************************************)
\* _MONTH_NAMES, in insertion order (the entry written with a non-ASCII
\* letter is left out: no text of the model holds such a letter).
MONTH_NAMES ==
    << <<<<"j", "a", "n", "u", "a", "r", "y">>, 1>>,
       <<<<"f", "e", "b", "r", "u", "a", "r", "y">>, 2>>,
       <<<<"m", "a", "r", "c", "h">>, 3>>,
       <<<<"a", "p", "r", "i", "l">>, 4>>,
       <<<<"m", "a", "y">>, 5>>,
       <<<<"j", "u", "n", "e">>, 6>>,
       <<<<"j", "u", "l", "y">>, 7>>,
       <<<<"a", "u", "g", "u", "s", "t">>, 8>>,
       <<<<"s", "e", "p", "t", "e", "m", "b", "e", "r">>, 9>>,
       <<<<"o", "c", "t", "o", "b", "e", "r">>, 10>>,
       <<<<"n", "o", "v", "e", "m", "b", "e", "r">>, 11>>,
       <<<<"d", "e", "c", "e", "m", "b", "e", "r">>, 12>>,
       <<<<"j", "a", "n">>, 1>>,
       <<<<"f", "e", "b">>, 2>>,
       <<<<"m", "a", "r">>, 3>>,
       <<<<"a", "p", "r">>, 4>>,
       <<<<"j", "u", "n">>, 6>>,
       <<<<"j", "u", "l">>, 7>>,
       <<<<"a", "u", "g">>, 8>>,
       <<<<"s", "e", "p">>, 9>>,
       <<<<"o", "c", "t">>, 10>>,
       <<<<"n", "o", "v">>, 11>>,
       <<<<"d", "e", "c">>, 12>>,
       <<<<"j", "a", "n", "u", "a", "r", "i">>, 1>>,
       <<<<"f", "e", "b", "r", "u", "a", "r", "i">>, 2>>,
       <<<<"m", "a", "r", "s">>, 3>>,
       <<<<"m", "a", "j">>, 5>>,
       <<<<"j", "u", "n", "i">>, 6>>,
       <<<<"j", "u", "l", "i">>, 7>>,
       <<<<"a", "u", "g", "u", "s", "t", "i">>, 8>>,
       <<<<"o", "k", "t", "o", "b", "e", "r">>, 10>>,
       <<<<"s", "e", "p", "t">>, 9>>,
       <<<<"o", "k", "t">>, 10>>,
       <<<<"j", "a", "n", "u", "a", "r">>, 1>>,
       <<<<"m", "a", "i">>, 5>>,
       <<<<"d", "e", "z", "e", "m", "b", "e", "r">>, 12>> >>

\* int() of a run of digits
RECURSIVE to_int(_)
to_int(digits) ==
    IF digits = <<>> THEN 0
    ELSE 10 * to_int(SubSeq(digits, 1, Len(digits) - 1))
             + (CHOOSE d \in 0..9 : Digit_of[d] = digits[Len(digits)])

is_leap(year) == (year % 4 = 0 /\ year % 100 # 0) \/ year % 400 = 0

days_in_month(year, month) ==
    CASE month \in {4, 6, 9, 11} -> 30
      [] month = 2 -> IF is_leap(year) THEN 29 ELSE 28
      [] OTHER -> 31

\* The ValueError of datetime.date, as a value.
ValueError == <<-1>>

\* datetime.date(year, month, day)
date(year, month, day) ==
    IF /\ year >= 1 /\ year <= 9999
       /\ month >= 1 /\ month <= 12
       /\ day >= 1 /\ day <= days_in_month(year, month)
    THEN <<year, month, day>>
    ELSE ValueError

ISO_DATE_PATTERN ==
    <<rx_digits(4, 4, TRUE), rx_char({"-"}), rx_digits(2, 2, TRUE), rx_char({"-"}),
      rx_digits(2, 2, TRUE)>>
EUROPEAN_DATE_PATTERN ==
    <<rx_digits(1, 2, TRUE), rx_char({"."}), rx_digits(1, 2, TRUE), rx_char({"."}),
      rx_digits(4, 4, TRUE)>>
SLASH_DATE_PATTERN ==
    <<rx_digits(1, 2, TRUE), rx_char({"/"}), rx_digits(1, 2, TRUE), rx_char({"/"}),
      rx_digits(4, 4, TRUE)>>

\* pattern1: month_name\.?\s+(\d{1,2}),?\s+(\d{4})
month_first_pattern(month_name) ==
    rx_literal_ignorecase(month_name)
        \o <<rx_opt({"."}), rx_spaces, rx_digits(1, 2, TRUE), rx_opt({","}), rx_spaces,
             rx_digits(4, 4, TRUE)>>

\* pattern2: (\d{1,2})\s+month_name\.?\s+(\d{4})
day_first_pattern(month_name) ==
    <<rx_digits(1, 2, TRUE), rx_spaces>> \o rx_literal_ignorecase(month_name)
        \o <<rx_opt({"."}), rx_spaces, rx_digits(4, 4, TRUE)>>

\* The two patterns of each entry of _MONTH_NAMES.
MonthFirstPatterns ==
    [k \in DOMAIN MONTH_NAMES |-> month_first_pattern(MONTH_NAMES[k][1])]
DayFirstPatterns ==
    [k \in DOMAIN MONTH_NAMES |-> day_first_pattern(MONTH_NAMES[k][1])]

\* The loop over _MONTH_NAMES, from entry k on.
RECURSIVE parse_month_names(_, _)
parse_month_names(text, k) ==
    IF k > Len(MONTH_NAMES) THEN <<>>
    ELSE LET month == MONTH_NAMES[k][2]
             match1 == rx_search(MonthFirstPatterns[k], text)
             date1 == IF match1 = <<>> THEN ValueError
                      ELSE date(to_int(match1[2]), month, to_int(match1[1]))
             match2 == rx_search(DayFirstPatterns[k], text)
             date2 == IF match2 = <<>> THEN ValueError
                      ELSE date(to_int(match2[2]), month, to_int(match2[1]))
         IN IF date1 # ValueError THEN date1
            ELSE IF date2 # ValueError THEN date2
            ELSE parse_month_names(text, k + 1)

\* DateParser.Parse: every ValueError is caught and the next shape is tried.
DateParserParse(text, locale) ==
    LET iso_match == rx_search(ISO_DATE_PATTERN, text)
        iso == IF iso_match = <<>> THEN ValueError
               ELSE date(to_int(iso_match[1]), to_int(iso_match[2]), to_int(iso_match[3]))
        dot_match == rx_search(EUROPEAN_DATE_PATTERN, text)
        dot == IF dot_match = <<>> THEN ValueError
               ELSE LET first == to_int(dot_match[1])
                        second == to_int(dot_match[2])
                        year == to_int(dot_match[3])
                    IN IF locale # "US" /\ first <= 31 /\ second <= 12
                       THEN date(year, second, first)
                       ELSE ValueError
        slash_match == rx_search(SLASH_DATE_PATTERN, text)
        slash == IF slash_match = <<>> THEN ValueError
                 ELSE LET first == to_int(slash_match[1])
                          second == to_int(slash_match[2])
                          year == to_int(slash_match[3])
                      IN IF locale = "US"
                         THEN IF first <= 12 /\ second <= 31
                              THEN date(year, first, second) ELSE ValueError
                         ELSE IF first <= 31 /\ second <= 12
                              THEN date(year, second, first) ELSE ValueError
    IN IF iso # ValueError THEN iso
       ELSE IF dot # ValueError THEN dot
       ELSE IF slash # ValueError THEN slash
       ELSE parse_month_names(text, 1)

\* DateTokenPattern under re.IGNORECASE, as its users compile it: the text
\* holds one of the five shapes.
DateTokenPattern(text) ==
    \/ rx_search(<<rx_digits(4, 4, TRUE), rx_char({"-"}), rx_digits(2, 2, TRUE),
                   rx_char({"-"}), rx_digits(2, 2, TRUE), rx_not_digit>>, text) # <<>>
    \/ rx_search(EUROPEAN_DATE_PATTERN \o <<rx_not_digit>>, text) # <<>>
    \/ rx_search(SLASH_DATE_PATTERN \o <<rx_not_digit>>, text) # <<>>
    \/ \E k \in DOMAIN MONTH_NAMES :
           \/ rx_search(<<rx_boundary>> \o MonthFirstPatterns[k]
                            \o <<rx_boundary>>, text) # <<>>
           \/ rx_search(<<rx_boundary>> \o DayFirstPatterns[k]
                            \o <<rx_boundary>>, text) # <<>>

(***************************************************************************)
(* SpecDate: DateParser.Parse on texts holding three numbers with '-',     *)
(* '.' or '/' between them, or a month name with a day and a year, alone   *)
(* or with a character before or after.                                    *)
(***************************************************************************)
DateYears == {<<"2", "0", "2", "4">>, <<"0", "0", "0", "0">>}
DateTwoDigits == {<<"0", "2">>, <<"1", "2">>, <<"1", "3">>, <<"3", "0">>, <<"3", "1">>}
DateNumbers == {<<"2">>, <<"1", "2">>, <<"1", "3">>, <<"3", "0">>, <<"3", "1">>}
DateAffixes == {<<>>, <<"1">>}
DateMonthWords ==
    {<<"m", "a", "y">>,
     <<"M", "a", "y">>,
     <<"m", "a", "r">>,
     <<"m", "a", "r", "s">>,
     <<"s", "e", "p", "t">>}
DateMonthTexts ==
    UNION {{w \o <<" ">> \o d \o <<",", " ", "2", "0", "2", "4">>,
            w \o <<".", " ">> \o d \o <<" ", "2", "0", "2", "4">>,
            d \o <<" ">> \o w \o <<" ", "2", "0", "2", "4">>,
            <<"x">> \o w \o <<" ">> \o d \o <<" ", "2", "0", "2", "4">>,
            d \o <<" ">> \o w \o <<" ", "2", "0", "2", "4", "x">>} :
               <<w, d>> \in DateMonthWords \X {<<"5">>, <<"3", "1">>}}
DateNumberTexts ==
    UNION {{y \o <<"-">> \o a \o <<"-">> \o b \o post : <<a, b>> \in DateTwoDigits \X DateTwoDigits}
           \cup {a \o <<".">> \o b \o <<".">> \o y \o post : <<a, b>> \in DateNumbers \X DateNumbers}
           \cup {a \o <<"/">> \o b \o <<"/">> \o y \o post : <<a, b>> \in DateNumbers \X DateNumbers} :
              <<y, post>> \in DateYears \X DateAffixes}
DateTexts == DateNumberTexts \cup DateMonthTexts \cup {<<>>, <<"x">>, <<"2", "0", "2", "4">>}

DateStart ==
    /\ d_pc = "input"
    /\ d_text \in DateTexts
    /\ d_locale \in Locales
    /\ d_result = <<>>

\* return of DateParser.Parse
DateParserParseCall ==
    /\ d_pc = "input"
    /\ d_result' = DateParserParse(d_text, d_locale)
    /\ d_pc' = "done"
    /\ UNCHANGED <<d_text, d_locale>>
    /\ UNCHANGED dateOthers

\* C21: DateParser.Parse never raises and returns None exactly when the
\* text holds none of the five recognized date shapes.
C21_NoneIffNoShape ==
    d_pc = "done" =>
        /\ d_result # ValueError
        /\ (d_result = <<>>) <=> ~DateTokenPattern(d_text)

(***************************************************************************)
(* parsing/locale.py: LocaleDetector.Detect.  The text is represented by   *)
(* the set of the patterns that find a match in it.                        *)
(***************************************************************************)
\* The tests of Detect in the order they are made: the pattern searched,
\* the score it adds to and the weight added.
LocaleSignals ==
    <<<<"DOLLAR_SIGN_WITH_DIGIT", "US", 3>>,
      <<"USD_CURRENCY_CODE", "US", 2>>,
      <<"EURO_CURRENCY", "European", 3>>,
      <<"NORDIC_AND_SWISS_CURRENCY", "European", 3>>,
      <<"KRONA_SYMBOL", "European", 2>>,
      <<"POUND_CURRENCY", "US", 1>>,
      <<"SWEDISH_INVOICE_TERMS", "European", 3>>,
      <<"GERMAN_INVOICE_TERMS", "European", 3>>,
      <<"FRENCH_INVOICE_TERMS", "European", 3>>,
      <<"SWEDISH_LOCATION", "European", 4>>,
      <<"GERMAN_LOCATION", "European", 4>>,
      <<"FRENCH_LOCATION", "European", 4>>,
      <<"DUTCH_LOCATION", "European", 4>>,
      <<"CZECH_LOCATION", "European", 4>>,
      <<"US_LOCATION", "US", 4>>,
      <<"EU_VAT_NUMBER", "European", 3>>,
      <<"SWEDISH_POSTAL_CODE", "European", 2>>,
      <<"US_ZIP_PLUS_FOUR", "US", 2>>,
      <<"EUROPEAN_NUMBER_FORMAT", "European", 4>>,
      <<"US_NUMBER_FORMAT", "US", 4>>>>

\* 'if euro_score >= us_score' for 'if euro_score > us_score'
locale_of_scores_TieEuropean(us_score, euro_score) ==
    IF euro_score >= us_score THEN "European"
    ELSE IF us_score > euro_score THEN "US"
    ELSE "Unknown"

\* lines 122 to 128
locale_of_scores(us_score, euro_score) ==
    IF euro_score > us_score THEN "European"
    ELSE IF us_score > euro_score THEN "US"
    ELSE "Unknown"

\* The score of one side after the first k tests.
RECURSIVE score_after(_, _, _)
score_after(found, side, k) ==
    IF k = 0 THEN 0
    ELSE score_after(found, side, k - 1)
             + (IF LocaleSignals[k][1] \in found /\ LocaleSignals[k][2] = side
                THEN LocaleSignals[k][3] ELSE 0)

MaxSignals == 3
SignalNames == {LocaleSignals[k][1] : k \in DOMAIN LocaleSignals}

LocaleStart ==
    /\ l_pc = "input"
    /\ l_found \in {f \in SUBSET SignalNames : Cardinality(f) <= MaxSignals}
    /\ l_us_score = 0
    /\ l_euro_score = 0
    /\ l_result = NoneVal

\* LocaleDetector.Detect(text)
LocaleDetect ==
    /\ l_pc = "input"
    /\ l_us_score' = score_after(l_found, "US", Len(LocaleSignals))
    /\ l_euro_score' = score_after(l_found, "European", Len(LocaleSignals))
    /\ l_result' = locale_of_scores(l_us_score', l_euro_score')
    /\ l_pc' = "done"
    /\ UNCHANGED l_found
    /\ UNCHANGED localeOthers

\* The weights of the table of the signals found, summed for one side.
RECURSIVE TableSum(_, _)
TableSum(found, side) ==
    IF found = {} THEN 0
    ELSE LET name == CHOOSE n \in found : TRUE
             k == CHOOSE i \in DOMAIN LocaleSignals : LocaleSignals[i][1] = name
         IN (IF LocaleSignals[k][2] = side THEN LocaleSignals[k][3] ELSE 0)
                + TableSum(found \ {name}, side)

\* C22: Detect returns European iff euro_score > us_score, US iff
\* us_score > euro_score and Unknown iff the scores are equal, the scores
\* being the sums of the weights of the signals found.
C22_HigherScoreWins ==
    l_pc = "done" =>
        LET us == TableSum(l_found, "US")
            euro == TableSum(l_found, "European")
        IN /\ l_us_score = us
           /\ l_euro_score = euro
           /\ (l_result = "European") <=> (euro > us)
           /\ (l_result = "US") <=> (us > euro)
           /\ (l_result = "Unknown") <=> (us = euro)

\* '$1' and 'EUR' with nothing else: 3 against 3, Unknown.
C22_Witness ==
    /\ l_pc = "done"
    /\ l_found = {"DOLLAR_SIGN_WITH_DIGIT", "EURO_CURRENCY"}
    /\ l_us_score = 3
    /\ l_euro_score = 3
    /\ l_result = "Unknown"

(***************************************************************************)
(* parsing/extractors/vat and parsing/extractors/total: the amount         *)
(* extractors.  The context text holds one amount next to one label, so    *)
(* re.finditer yields at most one match.                                   *)
(***************************************************************************)
\* ExtractionResult(value, votes, ...)
ExtractionResult(value, votes) == [Value |-> value, Votes |-> votes]

\* Decimal comparisons with 0 and 10_000_000.
decimal_is_zero(amount) == amount = <<<<>>, <<>>>>
decimal_below_ten_million(amount) == Len(amount[1]) <= 7

\* (?<!\d)([€$£]?\d{1,6}[.,]\d{2,3}[€$£]?)\s*Moms\s*\(
SWEDISH_REVERSE_VAT_PATTERN ==
    <<rx_not_after_digit, rx_mark, rx_opt(CurrencySigns), rx_digits(1, 6, FALSE),
      rx_char({".", ","}), rx_digits(2, 3, FALSE), rx_opt(CurrencySigns), rx_mark,
      rx_spaces0>>
        \o rx_literal_ignorecase(<<"m", "o", "m", "s">>)
        \o <<rx_spaces0, rx_char({"("})>>

\* _YEAR_LIKE_PATTERN: ^20\d{4}[.,]\d{2,3}
YEAR_LIKE_PATTERN ==
    <<rx_start, rx_mark, rx_char({"2"}), rx_char({"0"}), rx_digits(4, 4, FALSE),
      rx_char({".", ","}), rx_digits(2, 3, FALSE)>>

\* 'amount > 0' for 'amount >= 0'
swedish_reverse_vat_in_range_Positive(amount) ==
    amount # NoneVal /\ ~decimal_is_zero(amount) /\ decimal_below_ten_million(amount)

\* swedish_reverse_vat_extractor.py line 34: amount >= 0 holds of every
\* Decimal ParseAmount returns for a text without a sign.
swedish_reverse_vat_in_range(amount) ==
    amount # NoneVal /\ decimal_below_ten_million(amount)

SwedishReverseVatExtractor_ExtractAll(text, locale) ==
    LET match == rx_search(SWEDISH_REVERSE_VAT_PATTERN, text)
    IN IF match = <<>> THEN <<>>
       ELSE LET amount_text == SubSeq(text, match[1], match[2] - 1)
            IN IF rx_search(YEAR_LIKE_PATTERN, amount_text) # <<>> THEN <<>>
               ELSE IF swedish_reverse_vat_in_range(ParseAmount(amount_text, locale))
               THEN <<ExtractionResult(amount_text, 3)>>
               ELSE <<>>

\* The group every pattern of VatAmountExtractor ends with:
\* ([€$£]?\s*[\d\s\.,]+)
VAT_AMOUNT_GROUP ==
    <<rx_mark, rx_opt(CurrencySigns), rx_spaces0,
      rx_chars(Digits \cup Whitespace \cup {".", ","}), rx_mark>>

\* The patterns of VatAmountExtractor with their votes; the third one
\* (vat - <word> <n>% ...) is left out: no text of the model holds 'vat'.
VAT_AMOUNT_PATTERNS ==
    << <<rx_literal_ignorecase(<<"v", "a", "t">>) \o <<rx_spaces>>
             \o rx_literal_ignorecase(<<"a", "m", "o", "u", "n", "t">>)
             \o <<rx_spaces0, rx_opt({":"}), rx_spaces0>>, 3>>,
       <<rx_literal_ignorecase(<<"m", "o", "m", "s">>)
             \o <<rx_spaces0, rx_opt({":"}), rx_spaces0>>, 3>> >>

\* vat_amount_extractor.py line 34; anchored_total_amount_extractor.py
\* line 64 rejects the complement.
amount_in_open_interval(amount) ==
    amount # NoneVal /\ ~decimal_is_zero(amount) /\ decimal_below_ten_million(amount)

RECURSIVE VatAmountExtractor_from(_, _, _)
VatAmountExtractor_from(text, locale, k) ==
    IF k > Len(VAT_AMOUNT_PATTERNS) THEN <<>>
    ELSE LET match == rx_search(VAT_AMOUNT_PATTERNS[k][1] \o VAT_AMOUNT_GROUP, text)
             amount_str == SubSeq(text, match[1], match[2] - 1)
         IN (IF match # <<>> /\ amount_in_open_interval(ParseAmount(amount_str, locale))
             THEN <<ExtractionResult(amount_str, VAT_AMOUNT_PATTERNS[k][2])>>
             ELSE <<>>)
                \o VatAmountExtractor_from(text, locale, k + 1)

VatAmountExtractor_ExtractAll(text, locale) == VatAmountExtractor_from(text, locale, 1)

\* The loop body of AnchoredTotalAmountExtractor.ExtractAll for one anchored
\* match: value is match.Value, votes the votes computed at line 81, kept
\* the outcome of the tests on the line of the value (lines 60 to 83).
AnchoredTotalAmountExtractor_ExtractAll(value, locale, votes, kept) ==
    IF ~amount_in_open_interval(ParseAmount(value, locale)) THEN <<>>
    ELSE IF ~kept \/ votes <= 0 THEN <<>>
    ELSE <<ExtractionResult(value, votes)>>

(***************************************************************************)
(* SpecAmount: one amount extractor is called on a text holding one        *)
(* amount, written with either separator convention.                       *)
(***************************************************************************)
AmountTokens ==
    {<<"0", ",", "0", "0">>,
     <<"0", ".", "0", "0">>,
     <<"0", ",", "0", "1">>,
     <<"1", "2", ",", "5", "0">>,
     <<"1", "2", ".", "5", "0">>,
     <<"9", "9", "9", "9", "9", "9", ",", "9", "9">>,
     <<"9", "9", "9", "9", "9", "9", "9", ".", "9", "9">>,
     <<"1", "0", "0", "0", "0", "0", "0", "0", ".", "0", "0">>,
     <<"1", "0", "0", "0", "0", "0", "0", "0", ",", "0", "0">>,
     <<"1", " ", "2", "3", "4", ",", "5", "0">>,
     <<"2", "0", "0", "0", "1", "2", ",", "5", "0">>}
AmountExtractors == {"SwedishReverseVat", "VatAmount", "AnchoredTotal"}
MaxTotalVotes == 2

\* The text an extractor finds the token in.
AmountContextText(extractor, token) ==
    CASE extractor = "SwedishReverseVat" -> token \o <<" ", "M", "o", "m", "s", " ", "(", "2", "5", "%", ")">>
      [] extractor = "VatAmount" -> <<"M", "o", "m", "s", ":", " ">> \o token
      [] OTHER -> token

AmountStart ==
    /\ a_pc = "input"
    /\ a_extractor \in AmountExtractors
    /\ \E token \in AmountTokens : a_text = AmountContextText(a_extractor, token)
    /\ a_locale \in Locales
    /\ a_results = <<>>

SwedishReverseVatExtractAll ==
    /\ a_pc = "input"
    /\ a_extractor = "SwedishReverseVat"
    /\ a_results' = SwedishReverseVatExtractor_ExtractAll(a_text, a_locale)
    /\ a_pc' = "done"
    /\ UNCHANGED <<a_extractor, a_text, a_locale>>
    /\ UNCHANGED amountOthers

VatAmountExtractAll ==
    /\ a_pc = "input"
    /\ a_extractor = "VatAmount"
    /\ a_results' = VatAmountExtractor_ExtractAll(a_text, a_locale)
    /\ a_pc' = "done"
    /\ UNCHANGED <<a_extractor, a_text, a_locale>>
    /\ UNCHANGED amountOthers

AnchoredTotalExtractAll ==
    /\ a_pc = "input"
    /\ a_extractor = "AnchoredTotal"
    /\ \E votes \in 0..MaxTotalVotes, kept \in BOOLEAN :
           a_results' = AnchoredTotalAmountExtractor_ExtractAll(a_text, a_locale, votes, kept)
    /\ a_pc' = "done"
    /\ UNCHANGED <<a_extractor, a_text, a_locale>>
    /\ UNCHANGED amountOthers

\* C23: no extractor hands the aggregator an amount candidate whose parsed
\* value lies outside the open interval (0, 10 000 000); zero is never a
\* result.
C23_AmountsInOpenInterval ==
    a_pc = "done" =>
        \A i \in DOMAIN a_results :
            LET amount == ParseAmount(strip(a_results[i].Value), a_locale)
            IN /\ amount # NoneVal
               /\ ~decimal_is_zero(amount)
               /\ decimal_below_ten_million(amount)

\* Where the match of a candidate value starts in the text: the texts are
\* ones in which "A" stands before "B".  (The results an extractor hands
\* over carry a value, votes and the matched text, and no position.)
MatchStart(value) == IF value = "A" THEN 0 ELSE 40

\* C24: for a date or amount field exactly one value survives aggregation,
\* and among the candidates that tie on the vote count the one whose match
\* starts at the earlier character position is selected.
C24_TieBrokenByPosition ==
    (agg_pc = "done" /\ agg_op = "ExtractBest" /\ Surviving # {}) =>
        /\ agg_result \in Candidates
        /\ \A v \in Candidates \cap {"A", "B"} :
               (agg_result \in {"A", "B"} /\ TotalVotes(v) = TotalVotes(agg_result))
                   => MatchStart(agg_result) <= MatchStart(v)

(***************************************************************************)
(* VendorParser.Extract (parsing/vendor_parser.py): the cascade of vendor  *)
(* sources.  The subject, the email body and the sender hint are tokens    *)
(* that stand for the shapes the code tells apart; what each source finds  *)
(* in its argument is an input of the cascade.                             *)
(***************************************************************************)

\* email subjects: none, empty, one that _FORWARDED_REGEX matches, one it does not
VendorSubjects == {NoneVal, "", "Fwd: Invoice 7", "Invoice 7"}

\* email bodies: none, empty, and bodies with or without a forward marker
\* and with or without a "From: Name <addr>" line
VendorBodies ==
    {NoneVal, "", "marker+from", "marker", "quoted from", "from", "plain"}

VendorSenderHints == {NoneVal, "", "hint"}

\* _FORWARDED_REGEX.search(subject)
FORWARDED_REGEX(subject) == subject = "Fwd: Invoice 7"

\* _FORWARDED_REGEX2.search(body)
FORWARDED_REGEX2(body) == body \in {"marker+from", "marker"}

\* _QUOTED_EMAIL_FROM_PATTERN.search(body)
QUOTED_EMAIL_FROM_PATTERN(body) == body = "quoted from"

IsForwardedEmail(subject, body) ==
    IF Truthy(subject) /\ FORWARDED_REGEX(subject) THEN TRUE
    ELSE IF Truthy(body) /\ (FORWARDED_REGEX2(body) \/ QUOTED_EMAIL_FROM_PATTERN(body))
         THEN TRUE
    ELSE FALSE

\* the sender line of the forwarded message, or None when no From pattern matches
ExtractOriginalSenderFromForward(body) ==
    IF body \in {"marker+from", "quoted from", "from"} THEN "original" ELSE NoneVal

effective_sender_hint_OriginalElseHint(is_forwarded, original_sender, sender_hint) ==
    IF original_sender # NoneVal THEN original_sender ELSE sender_hint

effective_sender_hint(is_forwarded, original_sender, sender_hint) ==
    IF is_forwarded THEN original_sender ELSE sender_hint

\* What the sources find: each is None or a non-empty vendor name
\* (_extract_from_text, ExtractFromSender and ExtractFromLines return a
\* vendor only after a non-emptiness or length test).
VendorFound ==
    [ pdf : {NoneVal, "Pdf AB"},
      of_hint : {NoneVal, "Hint"},
      of_original : {NoneVal, "Original"},
      lines : {NoneVal, "Line AB"},
      body : {NoneVal, "Body AB"} ]

\* ExtractFromSender(sender, text) for the two sender tokens
ExtractFromSender(found, sender) ==
    IF sender = "original" THEN found.of_original ELSE found.of_hint

VendorParser_Extract(found, sender_hint, email_body_hint, email_subject) ==
    LET is_forwarded == IsForwardedEmail(email_subject, email_body_hint)
        original_sender ==
            IF is_forwarded /\ Truthy(email_body_hint)
            THEN ExtractOriginalSenderFromForward(email_body_hint)
            ELSE NoneVal
        hint == effective_sender_hint(is_forwarded, original_sender, sender_hint)
        pdf_vendor == found.pdf
        vendor == IF Truthy(hint) THEN ExtractFromSender(found, hint) ELSE NoneVal
        line_vendor == found.lines
        body_vendor == IF Truthy(email_body_hint) THEN found.body ELSE NoneVal
    IN  IF pdf_vendor # NoneVal THEN pdf_vendor
        ELSE IF vendor # NoneVal THEN vendor
        ELSE IF line_vendor # NoneVal THEN line_vendor
        ELSE IF body_vendor # NoneVal THEN body_vendor
        ELSE NoneVal

VendorStart ==
    /\ v_pc = "input"
    /\ v_found \in VendorFound
    /\ v_sender_hint \in VendorSenderHints
    /\ v_body \in VendorBodies
    /\ v_subject \in VendorSubjects
    /\ v_result = NoneVal

\* return of VendorParser.Extract
VendorExtract ==
    /\ v_pc = "input"
    /\ v_result' = VendorParser_Extract(v_found, v_sender_hint, v_body, v_subject)
    /\ v_pc' = "done"
    /\ UNCHANGED <<v_found, v_sender_hint, v_body, v_subject>>
    /\ UNCHANGED vendorOthers

\* the first entry of a sequence of optional vendors that is not None
FirstFound(layers) ==
    IF \E i \in 1..Len(layers) : layers[i] # NoneVal
    THEN layers[CHOOSE i \in 1..Len(layers) :
                    /\ layers[i] # NoneVal
                    /\ \A j \in 1..(i - 1) : layers[j] = NoneVal]
    ELSE NoneVal

\* the original sender of a forwarded email, None when the email is not
\* forwarded, has no body or has no From line
VendorOriginalSender ==
    IF /\ Truthy(v_body)
       /\ \/ v_subject = "Fwd: Invoice 7"
          \/ v_body \in {"marker+from", "marker", "quoted from"}
       /\ v_body \in {"marker+from", "quoted from", "from"}
    THEN "original" ELSE NoneVal

VendorForwarded ==
    \/ v_subject = "Fwd: Invoice 7"
    \/ v_body \in {"marker+from", "marker", "quoted from"}

\* C25 as stated: the vendor of the original sender of a forwarded email is
\* the first layer; the PDF text, the sender hint, the lines and the email
\* body follow, each deciding only when every earlier layer is empty.
C25_OriginalSenderFirst ==
    v_pc = "done" =>
        v_result = FirstFound(<<
            IF VendorOriginalSender # NoneVal THEN v_found.of_original ELSE NoneVal,
            v_found.pdf,
            IF Truthy(v_sender_hint) THEN v_found.of_hint ELSE NoneVal,
            v_found.lines,
            IF Truthy(v_body) THEN v_found.body ELSE NoneVal >>)

\* C25 (amended): the layers are (1) the PDF text, (2) the sender, (3) the
\* lines, (4) the email body, and the first non-empty one is returned; for a
\* forwarded email the sender is the original sender taken from its body and
\* the sender hint is not consulted, otherwise the sender is the sender hint.
C25_CascadeOrder ==
    v_pc = "done" =>
        v_result = FirstFound(<<
            v_found.pdf,
            IF VendorForwarded
            THEN (IF VendorOriginalSender # NoneVal THEN v_found.of_original ELSE NoneVal)
            ELSE (IF Truthy(v_sender_hint) THEN v_found.of_hint ELSE NoneVal),
            v_found.lines,
            IF Truthy(v_body) THEN v_found.body ELSE NoneVal >>)

\* a forwarded email with an original sender whose PDF text names a vendor
\* too, and one where a later layer decides
C25_Witness ==
    /\ v_pc = "done"
    /\ VendorForwarded
    /\ VendorOriginalSender # NoneVal
    /\ v_found.of_original # NoneVal
    /\ v_found.pdf # NoneVal
    /\ v_result = v_found.pdf

(***************************************************************************)
(* AnchoredExtractor._get_relative_position (extractors/                  *)
(* anchored_extractor.py): where a value stands relative to an anchor.     *)
(* Positions are those _get_position computes in a text whose lines all    *)
(* have the same width.                                                    *)
(***************************************************************************)

MaxHorizontalDistance == 30
MaxVerticalDistance == 2
ColumnTolerance == 10

\* the distance returned with AnchorPosition.None_, 2**31 - 1
NoDistance == 2147483647

Abs(x) == IF x < 0 THEN -x ELSE x

\* _get_position for a match of the given length at a line and column
TextPosition(line, column, length, width) ==
    [Line |-> line, Column |-> column, EndColumn |-> column + length,
     CharIndex |-> line * (width + 1) + column]

relative_vertical_BelowOtherwise(line_diff) ==
    IF line_diff > 0 THEN <<"Above", line_diff>> ELSE <<"Below", -line_diff>>

\* the two returns under "if columns_align"; <<>> when neither is taken
relative_vertical(line_diff) ==
    IF line_diff > 0 THEN <<"Above", line_diff>>
    ELSE IF line_diff < 0 THEN <<"Below", -line_diff>>
    ELSE <<>>

\* the return under "if a_pos.Line == v_pos.Line"; <<>> when none is taken
relative_horizontal(a_pos, v_pos) ==
    IF a_pos.Line # v_pos.Line THEN <<>>
    ELSE IF a_pos.EndColumn <= v_pos.Column
    THEN (IF v_pos.Column - a_pos.EndColumn <= MaxHorizontalDistance
          THEN <<"Left", v_pos.Column - a_pos.EndColumn>> ELSE <<>>)
    ELSE IF v_pos.EndColumn <= a_pos.Column
    THEN (IF a_pos.Column - v_pos.EndColumn <= MaxHorizontalDistance
          THEN <<"Right", a_pos.Column - v_pos.EndColumn>> ELSE <<>>)
    ELSE <<>>

columns_align(a_pos, v_pos) ==
    \/ Abs(a_pos.Column - v_pos.Column) <= ColumnTolerance
    \/ Abs(a_pos.EndColumn - v_pos.Column) <= ColumnTolerance

get_relative_position(a_pos, v_pos) ==
    LET horizontal == relative_horizontal(a_pos, v_pos)
        line_diff == v_pos.Line - a_pos.Line
        vertical ==
            IF Abs(line_diff) <= MaxVerticalDistance /\ columns_align(a_pos, v_pos)
            THEN relative_vertical(line_diff) ELSE <<>>
        char_distance == Abs(v_pos.CharIndex - a_pos.CharIndex)
    IN  IF horizontal # <<>> THEN horizontal
        ELSE IF vertical # <<>> THEN vertical
        ELSE IF char_distance <= MaxHorizontalDistance * 3 THEN <<"Any", char_distance>>
        ELSE <<"None", NoDistance>>

MaxPosLine == 3
PosColumns == {0, 5, 10, 15, 16, 35, 36, 41}
PosWidths == {20, 44}
\* anchors of 5 characters, values of 4

PosStart ==
    /\ r_pc = "input"
    /\ \E width \in PosWidths :
           /\ r_anchor \in {TextPosition(line, column, 5, width) :
                                line \in 0..MaxPosLine, column \in PosColumns}
           /\ r_value \in {TextPosition(line, column, 4, width) :
                               line \in 0..MaxPosLine, column \in PosColumns}
    /\ r_result = <<>>

\* return of _get_relative_position
PosGetRelativePosition ==
    /\ r_pc = "input"
    /\ r_result' = get_relative_position(r_anchor, r_value)
    /\ r_pc' = "done"
    /\ UNCHANGED <<r_anchor, r_value>>
    /\ UNCHANGED posOthers

\* The rules of the claim, as predicates of the anchor and value at hand.
PosSameLine == r_anchor.Line = r_value.Line

PosLeft ==
    /\ PosSameLine
    /\ r_anchor.EndColumn <= r_value.Column
    /\ r_value.Column - r_anchor.EndColumn <= 30

PosRight ==
    /\ PosSameLine
    /\ r_value.EndColumn <= r_anchor.Column
    /\ r_anchor.Column - r_value.EndColumn <= 30

PosVertical ==
    /\ r_value.Line - r_anchor.Line \in -2..2
    /\ \/ r_value.Column - r_anchor.Column \in -10..10
       \/ r_value.Column - r_anchor.EndColumn \in -10..10

PosAny == r_value.CharIndex - r_anchor.CharIndex \in -90..90

\* C26 as stated: the first rule that applies decides, and the vertical rule
\* gives Above for a value on a later line than the anchor and Below otherwise.
C26_FirstRuleBelowOtherwise ==
    r_pc = "done" =>
        r_result[1] =
            IF PosLeft THEN "Left"
            ELSE IF PosRight THEN "Right"
            ELSE IF PosVertical
            THEN (IF r_value.Line > r_anchor.Line THEN "Above" ELSE "Below")
            ELSE IF PosAny THEN "Any"
            ELSE "None"

\* C26 (amended): the first rule that applies decides, where the vertical
\* rule applies only to a value on another line than the anchor: Above for a
\* later line, Below for an earlier one.
C26_FirstRule ==
    r_pc = "done" =>
        r_result[1] =
            IF PosLeft THEN "Left"
            ELSE IF PosRight THEN "Right"
            ELSE IF PosVertical /\ ~PosSameLine
            THEN (IF r_value.Line > r_anchor.Line THEN "Above" ELSE "Below")
            ELSE IF PosAny THEN "Any"
            ELSE "None"

\* a value that overlaps its anchor on the same line with aligned columns
C26_Witness ==
    /\ r_pc = "done"
    /\ PosSameLine
    /\ PosVertical
    /\ ~PosLeft
    /\ ~PosRight
    /\ r_result[1] = "Any"

(***************************************************************************)
(* The anchored date extractors (extractors/invoice_date/                  *)
(* anchored_invoice_date_extractor.py, anchored_due_date_extractor.py)     *)
(* under ExtractorAggregator.ExtractAll.  A text is a sequence of lines    *)
(* (its split at "\n"), a line a sequence of tokens: a date label, a date  *)
(* or filling.  The only date tokens are two ISO dates and the only        *)
(* labels "Invoice date:" and "Due date:", each matched by one anchor of   *)
(* its own list and by none of the other list.                             *)
(***************************************************************************)
DateLabelTokens == {"Invoice date:", "Due date:"}
DateValueTokens == {"2024-01-01", "2024-02-02"}
DateFillTokens == {" ", " - ", " to ", " paid in full "}

token_chars(token) ==
    CASE token = "Invoice date:" ->
           <<"I", "n", "v", "o", "i", "c", "e", " ", "d", "a", "t", "e", ":">>
      [] token = "Due date:" ->
           <<"D", "u", "e", " ", "d", "a", "t", "e", ":">>
      [] token = "2024-01-01" ->
           <<"2", "0", "2", "4", "-", "0", "1", "-", "0", "1">>
      [] token = "2024-02-02" ->
           <<"2", "0", "2", "4", "-", "0", "2", "-", "0", "2">>
      [] token = " " ->
           <<" ">>
      [] token = " - " ->
           <<" ", "-", " ">>
      [] token = " to " ->
           <<" ", "t", "o", " ">>
      [] token = " paid in full " ->
           <<" ", "p", "a", "i", "d", " ", "i", "n", " ", "f", "u", "l", "l", " ">>

RECURSIVE line_chars(_)
line_chars(line) ==
    IF line = <<>> THEN <<>> ELSE token_chars(Head(line)) \o line_chars(Tail(line))

\* where token i of the line starts, counted from 0
RECURSIVE token_start(_, _)
token_start(line, i) ==
    IF i = 1 THEN 0 ELSE token_start(line, i - 1) + Len(token_chars(line[i - 1]))

\* the indexes, in order, of the tokens of the line that are in the set:
\* re.finditer over the line
RECURSIVE token_matches(_, _, _)
token_matches(line, tokens, i) ==
    IF i > Len(line) THEN <<>>
    ELSE (IF line[i] \in tokens THEN <<i>> ELSE <<>>) \o token_matches(line, tokens, i + 1)

\* re.finditer(DateTokenPattern, line)
date_matches(line) == token_matches(line, DateValueTokens, 1)

\* the anchor of the extractor's list that the labels can match: its label
\* and its BonusVotes
anchor_of(extractor) ==
    IF extractor = "AnchoredInvoiceDateExtractor"
    THEN [Label |-> "Invoice date:", BonusVotes |-> 4]
    ELSE [Label |-> "Due date:", BonusVotes |-> 4]

\* _RANGE_DASH_REGEX.search(window), the en dash left out
RANGE_DASH_REGEX(window) ==
    \E k \in 1..(Len(window) - 2) :
        window[k] = " " /\ window[k + 1] = "-" /\ window[k + 2] = " "

\* _RANGE_WORD_REGEX.search(window)
RANGE_WORD_REGEX(window) ==
    \E k \in 1..(Len(window) - 1) :
        /\ window[k] \in {"t", "T"}
        /\ window[k + 1] \in {"o", "O"}
        /\ (k = 1 \/ window[k - 1] \notin WordChars)
        /\ (k + 1 = Len(window) \/ window[k + 2] \notin WordChars)

int_max(a, b) == IF a >= b THEN a ELSE b
int_min(a, b) == IF a <= b THEN a ELSE b

\* the window of _is_range_token around the date match at token i
range_window(line, i) ==
    LET text == line_chars(line)
        start == int_max(0, token_start(line, i) - 6)
        end == int_min(Len(text), token_start(line, i) + Len(token_chars(line[i])) + 6)
    IN  SubSeq(text, start + 1, end)

is_range_token(line, i) ==
    RANGE_DASH_REGEX(range_window(line, i)) \/ RANGE_WORD_REGEX(range_window(line, i))

DateResult(value, votes) == [Value |-> value, Votes |-> votes]

RECURSIVE add_date_matches(_, _, _, _)
add_date_matches(line, matches, anchor_votes, offset) ==
    IF matches = <<>> THEN <<>>
    ELSE (IF is_range_token(line, Head(matches)) THEN <<>>
          ELSE <<DateResult(line[Head(matches)], int_max(1, anchor_votes - offset))>>)
         \o add_date_matches(line, Tail(matches), anchor_votes, offset)

\* min(abs(match.start() - anchor_index) for anchor_index in anchors)
RECURSIVE anchor_distance(_, _, _)
anchor_distance(line, i, anchors) ==
    LET d == Abs(token_start(line, i) - token_start(line, Head(anchors)))
    IN  IF Len(anchors) = 1 THEN d
        ELSE int_min(d, anchor_distance(line, i, Tail(anchors)))

RECURSIVE add_date_matches_with_anchors(_, _, _, _)
add_date_matches_with_anchors(line, anchors, matches, anchor_votes) ==
    IF anchors = <<>> THEN add_date_matches(line, matches, anchor_votes, 0)
    ELSE IF matches = <<>> THEN <<>>
    ELSE (IF is_range_token(line, Head(matches)) THEN <<>>
          ELSE LET distance == anchor_distance(line, Head(matches), anchors)
                   distance_penalty == int_min(3, distance \div 20)
               IN  <<DateResult(line[Head(matches)],
                                int_max(1, anchor_votes - distance_penalty))>>)
         \o add_date_matches_with_anchors(line, anchors, Tail(matches), anchor_votes)

\* line_index counts from 1 here
add_date_matches_for_line(lines, line_index, anchor_votes, offset) ==
    IF line_index < 1 \/ line_index > Len(lines) THEN <<>>
    ELSE IF date_matches(lines[line_index]) = <<>> THEN <<>>
    ELSE add_date_matches(lines[line_index], date_matches(lines[line_index]),
                          anchor_votes, offset)

RECURSIVE add_neighbor_date_matches(_, _, _, _)
add_neighbor_date_matches(lines, line_index, anchor_votes, offset) ==
    IF offset > 6 THEN <<>>
    ELSE add_date_matches_for_line(lines, line_index - offset, anchor_votes, offset)
         \o add_date_matches_for_line(lines, line_index + offset, anchor_votes, offset)
         \o add_neighbor_date_matches(lines, line_index, anchor_votes, offset + 1)

RECURSIVE extract_anchored_dates_from_lines(_, _, _)
extract_anchored_dates_from_lines(lines, anchor, line_index) ==
    IF line_index > Len(lines) THEN <<>>
    ELSE LET line == lines[line_index]
             anchor_matches == token_matches(line, {anchor.Label}, 1)
         IN  (IF anchor_matches = <<>> THEN <<>>
              ELSE IF date_matches(line) # <<>>
              THEN add_date_matches_with_anchors(line, anchor_matches, date_matches(line),
                                                 1 + anchor.BonusVotes)
              ELSE add_neighbor_date_matches(lines, line_index, 1 + anchor.BonusVotes, 1))
             \o extract_anchored_dates_from_lines(lines, anchor, line_index + 1)

\* a text holds the label: _INVOICE_DATE_REGEX.search, _DUE_DATE_REGEX.search
text_has_label(text, label) ==
    \E n \in 1..Len(text) : \E i \in 1..Len(text[n]) : text[n][i] = label

\* _ISO_DATE_REGEX.finditer(line): the dates with a word boundary on each side
iso_matches(line) ==
    LET text == line_chars(line)
        bounded(i) ==
            LET start == token_start(line, i)
                end == start + Len(token_chars(line[i]))
            IN  /\ (start = 0 \/ text[start] \notin WordChars)
                /\ (end = Len(text) \/ text[end + 1] \notin WordChars)
        RECURSIVE from(_)
        from(i) ==
            IF i > Len(line) THEN <<>>
            ELSE (IF line[i] \in DateValueTokens /\ bounded(i) THEN <<i>> ELSE <<>>)
                 \o from(i + 1)
    IN  from(1)

\* _RANGE_TOKEN_REGEX.search(between), the en dash left out
RANGE_TOKEN_REGEX(between) ==
    \/ \E k \in 1..Len(between) : between[k] = "-"
    \/ \E k \in 1..(Len(between) - 1) :
           between[k] \in {"t", "T"} /\ between[k + 1] \in {"o", "O"}

\* the lines of the model neither start nor end with white space, so that
\* line.strip() is the line
RECURSIVE extract_paired_iso_dates_from(_, _)
extract_paired_iso_dates_from(lines, n) ==
    IF n > Len(lines) THEN <<>>
    ELSE LET trimmed_line == lines[n]
             matches == iso_matches(trimmed_line)
             between_start == token_start(trimmed_line, matches[1])
                                  + Len(token_chars(trimmed_line[matches[1]]))
             between == SubSeq(line_chars(trimmed_line), between_start + 1,
                               token_start(trimmed_line, matches[2]))
         IN  (IF Len(line_chars(trimmed_line)) > 40 THEN <<>>
              ELSE IF Len(matches) # 2 THEN <<>>
              ELSE IF RANGE_TOKEN_REGEX(between) THEN <<>>
              ELSE <<DateResult(trimmed_line[matches[1]], 3)>>)
             \o extract_paired_iso_dates_from(lines, n + 1)

extract_paired_iso_dates(context) ==
    IF ~text_has_label(context.Text, "Invoice date:")
         \/ ~text_has_label(context.Text, "Due date:")
    THEN <<>>
    ELSE extract_paired_iso_dates_from(context.Lines, 1)

\* line_starts[n] of _build_line_index, for line n counted from 1
RECURSIVE build_line_index(_, _)
build_line_index(text, n) ==
    IF n = 1 THEN 0
    ELSE build_line_index(text, n - 1) + Len(line_chars(text[n - 1])) + 1

\* _get_position of the match that is token i of line n of the text
get_position(text, n, i) ==
    LET column == token_start(text[n], i)
    IN  [Line |-> n - 1, Column |-> column,
         EndColumn |-> column + Len(token_chars(text[n][i])),
         CharIndex |-> build_line_index(text, n) + column]

\* the positions, in text order, of the tokens of the text that are in the
\* set, each with its token: _find_anchors and _find_values
RECURSIVE find_tokens(_, _, _)
find_tokens(text, tokens, n) ==
    IF n > Len(text) THEN <<>>
    ELSE LET found == token_matches(text[n], tokens, 1)
         IN  [k \in 1..Len(found) |->
                 [Value |-> text[n][found[k]], Position |-> get_position(text, n, found[k])]]
             \o find_tokens(text, tokens, n + 1)

\* Python's round() of num / den, den > 0: halves go to the even integer
round_half_even(num, den) ==
    LET q == num \div den
        r == num % den
    IN  IF 2 * r < den THEN q
        ELSE IF 2 * r > den THEN q + 1
        ELSE IF q % 2 = 0 THEN q ELSE q + 1

\* int(round(anchor.BonusVotes * multiplier)), the multiplier in thirtieths
calculate_bonus(bonus_votes, position, distance) ==
    LET multiplier ==
            CASE position = "Left" ->
                     IF distance <= 3 THEN 30 ELSE int_max(15, 30 - distance)
              [] position = "Above" -> IF distance = 1 THEN 27 ELSE 21
              [] position = "Right" -> 12
              [] position = "Below" -> 9
              [] position = "Any" -> 9
              [] OTHER -> 0
    IN  IF position = "None" THEN 0 ELSE round_half_even(bonus_votes * multiplier, 30)

\* the loop of FindAnchored over found_anchors from the k-th on; best is
\* <<best_bonus, best_distance>>
RECURSIVE best_anchor(_, _, _, _, _)
best_anchor(found_anchors, bonus_votes, value, k, best) ==
    IF k > Len(found_anchors) THEN best
    ELSE LET relative == get_relative_position(found_anchors[k].Position, value.Position)
             bonus == calculate_bonus(bonus_votes, relative[1], relative[2])
         IN  IF relative[1] = "None"
             THEN best_anchor(found_anchors, bonus_votes, value, k + 1, best)
             ELSE IF bonus > best[1] \/ (bonus = best[1] /\ relative[2] < best[2])
             THEN best_anchor(found_anchors, bonus_votes, value, k + 1, <<bonus, relative[2]>>)
             ELSE best_anchor(found_anchors, bonus_votes, value, k + 1, best)

\* FindAnchored(text, DateTokenPattern, anchors, base_votes) and the loop of
\* ExtractAll over its matches: value and TotalVotes of each
FindAnchored(text, anchor, base_votes) ==
    LET found_anchors == find_tokens(text, {anchor.Label}, 1)
        found_values == find_tokens(text, DateValueTokens, 1)
    IN  [v \in 1..Len(found_values) |->
            DateResult(found_values[v].Value,
                       base_votes + best_anchor(found_anchors, anchor.BonusVotes,
                                                found_values[v], 1, <<0, NoDistance>>)[1])]

AnchoredDateExtractor_ExtractAll(extractor, context) ==
    (IF extractor = "AnchoredInvoiceDateExtractor"
     THEN extract_paired_iso_dates(context) ELSE <<>>)
    \o extract_anchored_dates_from_lines(context.Lines, anchor_of(extractor), 1)
    \o FindAnchored(context.Text, anchor_of(extractor), 1)

\* ExtractionContext.with_text, the locale and the hints left out
with_text(context, text) == [Text |-> text, Lines |-> context.Lines]

\* the loop of the aggregator over the results of one extractor
RECURSIVE aggregate_results(_, _)
aggregate_results(votes, results) ==
    IF results = <<>> THEN votes
    ELSE aggregate_results(aggregate_result(votes, Head(results)), Tail(results))

(***************************************************************************)
(* SpecDates: ExtractorAggregator.ExtractAll with one anchored date        *)
(* extractor over the documents of a page of at most MaxDateLines lines,   *)
(* called as _parse_internal calls it: the context holds the documents     *)
(* joined and the lines of that text.  The page is one document, or every  *)
(* line of it is a document of its own.                                    *)
(***************************************************************************)
MaxDateLines == 2

DateEdgeTokens == DateLabelTokens \cup DateValueTokens

\* no date twice, no date right after a date, no filling at either end
DateFirstLines ==
    {<<a>> : a \in DateEdgeTokens}
    \cup {<<l[1], l[2]>> : l \in {x \in DateEdgeTokens \X DateEdgeTokens :
                                     ~(x[1] \in DateValueTokens /\ x[2] \in DateValueTokens)}}
    \cup {<<l[1], l[2], l[3]>> :
              l \in {x \in DateEdgeTokens \X DateFillTokens \X DateEdgeTokens :
                         x[3] \notin DateValueTokens \/ x[3] # x[1]}}

DateNextLines ==
    { <<"2024-02-02">>, <<"Due date:">>, <<"2024-01-01", " - ", "2024-02-02">>,
      <<"Invoice date:", " ", "2024-02-02">> }

RECURSIVE DatePagesOf(_)
DatePagesOf(n) ==
    IF n = 1 THEN {<<line>> : line \in DateFirstLines}
    ELSE DatePagesOf(n - 1)
         \cup {Append(page, line) : page \in {p \in DatePagesOf(n - 1) : Len(p) = n - 1},
                                    line \in DateNextLines}

\* how often the token stands on the page
RECURSIVE token_count(_, _)
token_count(page, token) ==
    IF page = <<>> THEN 0
    ELSE Len(token_matches(Head(page), {token}, 1)) + token_count(Tail(page), token)

DatePages ==
    {page \in DatePagesOf(MaxDateLines) :
        \A d \in DateValueTokens : token_count(page, d) <= 1}

\* pdf_combined_text: "\n".join of the documents
RECURSIVE join_documents(_)
join_documents(documents) ==
    IF documents = <<>> THEN <<>> ELSE Head(documents) \o join_documents(Tail(documents))

\* pdf_context of _parse_internal
pdf_context(documents) ==
    [Text |-> join_documents(documents), Lines |-> join_documents(documents)]

DatesStart ==
    /\ g_pc = "loop"
    /\ g_extractor \in {"AnchoredInvoiceDateExtractor", "AnchoredDueDateExtractor"}
    /\ \E page \in DatePages :
           g_texts \in {<<page>>, [n \in 1..Len(page) |-> <<page[n]>>]}
    /\ g_context = pdf_context(g_texts)
    /\ g_ti = 1
    /\ g_text_context = <<>>
    /\ g_results = <<>>
    /\ g_votes = <<>>
    /\ g_result = <<>>

\* text_context = context.with_text(text)
DatesWithText ==
    /\ g_pc = "loop"
    /\ g_ti <= Len(g_texts)
    /\ g_text_context' = with_text(g_context, g_texts[g_ti])
    /\ g_pc' = "call"
    /\ UNCHANGED <<g_extractor, g_texts, g_context, g_ti, g_results, g_votes, g_result>>
    /\ UNCHANGED datesOthers

\* for result in extractor.ExtractAll(text_context): the results of the
\* extractor and the loop body on each
DatesExtractAll ==
    /\ g_pc = "call"
    /\ g_results' = AnchoredDateExtractor_ExtractAll(g_extractor, g_text_context)
    /\ g_votes' = aggregate_results(g_votes, g_results')
    /\ g_ti' = g_ti + 1
    /\ g_pc' = "loop"
    /\ UNCHANGED <<g_extractor, g_texts, g_context, g_text_context, g_result>>
    /\ UNCHANGED datesOthers

\* return of ExtractorAggregator.ExtractAll
DatesReturn ==
    /\ g_pc = "loop"
    /\ g_ti > Len(g_texts)
    /\ g_result' = ExtractAll_return(g_votes)
    /\ g_pc' = "done"
    /\ UNCHANGED <<g_extractor, g_texts, g_context, g_ti, g_text_context,
                   g_results, g_votes>>
    /\ UNCHANGED datesOthers

\* an extractor has just returned g_results for g_text_context
DatesExtracted == g_pc = "loop" /\ g_ti > 1

\* the date stands in the text within a window that holds a range token
DateInRange(text, value) ==
    \E n \in 1..Len(text) : \E i \in 1..Len(text[n]) :
        text[n][i] = value /\ is_range_token(text[n], i)

\* C27: the anchored invoice-date and due-date extractors return, through
\* none of their extraction paths, a date whose window of 6 characters
\* either side holds a range token (here for a context whose lines are the
\* lines of its text).
C27_NoDateInRange ==
    (DatesExtracted /\ g_text_context.Lines = g_text_context.Text) =>
        \A k \in 1..Len(g_results) :
            ~DateInRange(g_text_context.Text, g_results[k].Value)

\* C30: every context the aggregator passes to an extractor has as its Lines
\* the lines of its own Text, and every line that earns votes while a
\* variant is processed is a line of that variant.
C30_ContextSelfConsistent ==
    /\ g_pc = "call" => g_text_context.Lines = g_text_context.Text
    /\ DatesExtracted =>
           \A k \in 1..Len(g_results) :
               \E n \in 1..Len(g_text_context.Text) :
                   token_matches(g_text_context.Text[n], {g_results[k].Value}, 1) # <<>>

(***************************************************************************)
(* VendorParser._is_customer_context (parsing/vendor_parser.py).  The text *)
(* is a sequence of lines, each one of a few kinds: a customer-section     *)
(* header, the vendor, a header followed by the vendor, or other text.     *)
(***************************************************************************)

\* a header the claim lists, and one that only
\* _CUSTOMER_SECTION_HEADER_PATTERN lists
CustomerHeaders == {"Bill to", "Invoice to"}

\* the length of a line and the column at which the vendor "Acme AB"
\* starts in it, -1 when the line does not hold it
customer_line(header, vendor) ==
    CASE header # "" /\ vendor ->
             [Header |-> header, Length |-> Len(header) + 9, VendorColumn |-> Len(header) + 2]
      [] header # "" -> [Header |-> header, Length |-> Len(header), VendorColumn |-> -1]
      [] vendor -> [Header |-> "", Length |-> 7, VendorColumn |-> 0]
      [] OTHER -> [Header |-> "", Length |-> 7, VendorColumn |-> -1]

\* _CUSTOMER_SECTION_HEADER_PATTERN.search(line)
CUSTOMER_SECTION_HEADER_PATTERN(line) == line.Header \in CustomerHeaders

\* line_starts of _is_customer_context, for the first n lines
RECURSIVE customer_line_starts(_, _)
customer_line_starts(lines, n) ==
    IF n = 0 THEN <<>>
    ELSE IF n = 1 THEN <<0>>
    ELSE LET before == customer_line_starts(lines, n - 1)
         IN  Append(before, before[n - 1] + lines[n - 1].Length + 1)

\* the while loop of _find_line_index; indexes count from 0 as in the code
RECURSIVE find_line_index_loop(_, _, _, _)
find_line_index_loop(line_starts, char_index, low, high) ==
    IF low > high THEN int_max(0, high)
    ELSE LET mid == (low + high) \div 2
         IN  IF line_starts[mid + 1] <= char_index
             THEN find_line_index_loop(line_starts, char_index, mid + 1, high)
             ELSE find_line_index_loop(line_starts, char_index, low, mid - 1)

find_line_index(line_starts, char_index) ==
    find_line_index_loop(line_starts, char_index, 0, Len(line_starts) - 1)

\* match.start() of the matches of the vendor in the text, in order
RECURSIVE vendor_matches(_, _, _)
vendor_matches(lines, line_starts, n) ==
    IF n > Len(lines) THEN <<>>
    ELSE (IF lines[n].VendorColumn >= 0
          THEN <<line_starts[n] + lines[n].VendorColumn>> ELSE <<>>)
         \o vendor_matches(lines, line_starts, n + 1)

start_line_Thirteen(line_index) == int_max(0, line_index - 13)

start_line(line_index) == int_max(0, line_index - 12)

\* for i in range(line_index, start_line - 1, -1)
RECURSIVE has_anchor(_, _, _)
has_anchor(lines, i, first) ==
    IF i < first THEN FALSE
    ELSE IF CUSTOMER_SECTION_HEADER_PATTERN(lines[i + 1]) THEN TRUE
    ELSE has_anchor(lines, i - 1, first)

RECURSIVE every_match_has_anchor(_, _, _)
every_match_has_anchor(lines, line_starts, matches) ==
    IF matches = <<>> THEN TRUE
    ELSE LET line_index == find_line_index(line_starts, Head(matches))
         IN  IF ~has_anchor(lines, line_index, start_line(line_index)) THEN FALSE
             ELSE every_match_has_anchor(lines, line_starts, Tail(matches))

\* vendor is "Acme AB" or the empty string; an empty text has no lines
is_customer_context(lines, vendor) ==
    IF lines = <<>> \/ vendor = "" THEN FALSE
    ELSE LET line_starts == customer_line_starts(lines, Len(lines))
             matches == vendor_matches(lines, line_starts, 1)
         IN  IF matches = <<>> THEN FALSE
             ELSE every_match_has_anchor(lines, line_starts, matches)

MaxCustomerLines == 14

\* sets of at most two line numbers
CustomerPlaces ==
    {{}} \cup {{a, b} : a, b \in 1..MaxCustomerLines}

CustomerStart ==
    /\ c_pc = "input"
    /\ c_vendor \in {"Acme AB", ""}
    /\ \/ c_lines = <<>>
       \/ \E header \in CustomerHeaders, headers \in CustomerPlaces, vendors \in CustomerPlaces :
              c_lines = [n \in 1..MaxCustomerLines |->
                            customer_line(IF n \in headers THEN header ELSE "",
                                          n \in vendors)]
    /\ c_result = FALSE

\* return of _is_customer_context
CustomerIsCustomerContext ==
    /\ c_pc = "input"
    /\ c_result' = is_customer_context(c_lines, c_vendor)
    /\ c_pc' = "done"
    /\ UNCHANGED <<c_lines, c_vendor>>
    /\ UNCHANGED customerOthers

\* the lines on which the vendor occurs
CustomerOccurrences ==
    IF c_vendor = "" THEN {}
    ELSE {n \in 1..Len(c_lines) : c_lines[n].VendorColumn >= 0}

\* line n or one of the 12 lines above it holds one of the headers
CustomerHeaderNear(n, headers) ==
    \E h \in 1..Len(c_lines) :
        h <= n /\ n - h <= 12 /\ c_lines[h].Header \in headers

\* C28 as stated: a candidate is rejected exactly when it occurs in the text
\* and every occurrence has one of the headers Bill to, Sold to, Ship to,
\* Customer, Buyer, Account information on its own line or within the 12
\* lines above it.
C28_RejectedIffListedHeader ==
    c_pc = "done" =>
        (c_result <=>
            /\ CustomerOccurrences # {}
            /\ \A n \in CustomerOccurrences : CustomerHeaderNear(n, {"Bill to"}))

\* C28 (amended): the same, with the headers Billed to, Invoice to,
\* Faktureringsadress and Billing address counting as customer-section
\* headers too.
C28_RejectedIffHeader ==
    c_pc = "done" =>
        (c_result <=>
            /\ CustomerOccurrences # {}
            /\ \A n \in CustomerOccurrences : CustomerHeaderNear(n, CustomerHeaders))

\* a rejected vendor with an occurrence whose only header is 12 lines above
C28_Witness ==
    /\ c_pc = "done"
    /\ c_result
    /\ \E n \in CustomerOccurrences :
           /\ n > 12
           /\ c_lines[n - 12].Header # ""
           /\ \A h \in (n - 11)..n : c_lines[h].Header = ""

(***************************************************************************)
(* UnifiedInvoiceParser._extract_line_items (parsing/                      *)
(* unified_invoice_parser.py).  A line is a sequence of characters; the    *)
(* lines of the model are a description, a blank, an amount and a          *)
(* currency, in ASCII.                                                     *)
(***************************************************************************)

\* the word, in lower case, stands at the position of the line whatever
\* the case of the line: re.IGNORECASE
item_word_at(line, pos, word) ==
    /\ pos + Len(word) - 1 <= Len(line)
    /\ \A k \in 1..Len(word) :
           \/ line[pos + k - 1] = word[k]
           \/ word[k] \in Lowercase /\ line[pos + k - 1] = upper_of[word[k]]

item_contains(line, word) == \E pos \in 1..Len(line) : item_word_at(line, pos, word)

\* "payment.*method", "paid.*on": the first word and, after it, the second
item_contains_then(line, first, second) ==
    \E pos \in 1..Len(line) :
        /\ item_word_at(line, pos, first)
        /\ \E later \in (pos + Len(first))..Len(line) : item_word_at(line, later, second)

\* the alternatives of the first skip pattern, \s* taken as no or one blank
SkipPrefixes ==
    {
      <<"i", "n", "v", "o", "i", "c", "e">>,
      <<"f", "a", "k", "t", "u", "r", "a">>, <<"t", "o", "t", "a", "l">>,
      <<"s", "u", "b", "t", "o", "t", "a", "l">>, <<"v", "a", "t">>,
      <<"m", "o", "m", "s">>, <<"t", "a", "x">>, <<"d", "a", "t", "e">>,
      <<"p", "a", "g", "e">>, <<"f", "r", "o", "m", ":">>, <<"t", "o", ":">>,
      <<"b", "i", "l", "l", "t", "o">>,
      <<"b", "i", "l", "l", " ", "t", "o">>,
      <<"s", "h", "i", "p", "t", "o">>, <<"s", "h", "i", "p", " ", "t", "o">>
    }

\* the words of the skip patterns that search for a word anywhere
SkipWords ==
    {
      <<"w", "w", "w", ".">>, <<"h", "t", "t", "p">>,
      <<"t", "h", "a", "n", "k">>, <<"r", "e", "c", "e", "i", "p", "t">>,
      <<"e", "n", "d", "i", "n", "g">>,
      <<"m", "a", "s", "t", "e", "r", "c", "a", "r", "d">>,
      <<"v", "i", "s", "a">>, <<"c", "a", "r", "d">>, <<"g", "s", "t">>,
      <<"h", "s", "t">>, <<"p", "s", "t">>, <<"v", "a", "t", ":">>,
      <<"v", "a", "t", " ", ":">>,
      <<"a", "u", "s", "t", "r", "a", "l", "i", "a">>,
      <<"c", "a", "n", "a", "d", "a">>, <<"i", "n", "d", "i", "a">>,
      <<"u", "n", "i", "t", "e", "d", " ", "k", "i", "n", "g", "d", "o", "m">>,
      <<"u", "k", ":">>, <<"e", "u", ":">>
    }

\* any(re.search(pattern, line, re.IGNORECASE) for pattern in skip_patterns);
\* the patterns that need a state or city name, a ZIP code, an "@" or a
\* line of digits match no line of the model and are left out
skip_patterns(line) ==
    \/ \E word \in SkipPrefixes : item_word_at(line, 1, word)
    \/ \E word \in SkipWords : item_contains(line, word)
    \/ item_contains_then(line, <<"p", "a", "y", "m", "e", "n", "t">>, <<"m", "e", "t", "h", "o", "d">>)
    \/ item_contains_then(line, <<"p", "a", "i", "d">>, <<"o", "n">>)

\* the currencies of _LINE_ITEM_REGEX, case sensitive, the signs outside
\* ASCII left out
ItemCurrencies ==
    {<<"$">>, <<"k", "r">>, <<"S", "E", "K">>, <<"E", "U", "R">>, <<"U", "S", "D">>}

\* the index of the last character of line[1..n] that is not white space, 0 if none
RECURSIVE last_non_space(_, _)
last_non_space(line, n) ==
    IF n = 0 THEN 0
    ELSE IF line[n] \notin Whitespace THEN n
    ELSE last_non_space(line, n - 1)

\* the index of the first character from n on that is not white space,
\* Len(line) + 1 if none
RECURSIVE first_non_space(_, _)
first_non_space(line, n) ==
    IF n > Len(line) THEN n
    ELSE IF line[n] \notin Whitespace THEN n
    ELSE first_non_space(line, n + 1)

\* [\d\s]*\d[,\.]\d{2} matches all of s
item_amount_shape(s) ==
    LET n == Len(s)
    IN  /\ n >= 4
        /\ s[n] \in Digits /\ s[n - 1] \in Digits
        /\ s[n - 2] \in {",", "."}
        /\ s[n - 3] \in Digits
        /\ \A k \in 1..(n - 4) : s[k] \in Digits \cup Whitespace

\* the amount group when line[1..p] is the first group, <<>> when the rest
\* of the line does not match \s+([\d\s]*\d[,\.]\d{2})\s*(?:currency)?\s*$
item_amount_after(line, p) ==
    LET n == Len(line)
        q == first_non_space(line, p + 1)
        t1 == last_non_space(line, n)
        bare == SubSeq(line, q, t1)
        with_currency ==
            {SubSeq(line, q, last_non_space(line, t1 - Len(c))) :
                c \in {d \in ItemCurrencies :
                          /\ Len(d) <= t1 - q
                          /\ SubSeq(line, t1 - Len(d) + 1, t1) = d}}
        shaped == {s \in with_currency : item_amount_shape(s)}
    IN  IF p + 1 > n \/ line[p + 1] \notin Whitespace \/ q > n THEN <<>>
        ELSE IF item_amount_shape(bare) THEN bare
        ELSE IF shaped # {} THEN CHOOSE s \in shaped : TRUE
        ELSE <<>>

\* _LINE_ITEM_REGEX.match(line): <<group(1), group(2)>> for the shortest
\* first group of at least 10 characters, <<>> for no match
RECURSIVE line_item_match_from(_, _)
line_item_match_from(line, p) ==
    IF p >= Len(line) THEN <<>>
    ELSE IF item_amount_after(line, p) # <<>>
    THEN <<SubSeq(line, 1, p), item_amount_after(line, p)>>
    ELSE line_item_match_from(line, p + 1)

line_item_match(line) == line_item_match_from(line, 10)

\* amount_str.replace(" ", "").replace(",", "").replace(".", "")
raw_amount_of(amount_str) == remove(remove(remove(amount_str, " "), ","), ".")

\* the "continue" of the year test: the digits are at most 5 and either 5
\* or a number from 2020 to 2099
year_test(raw_amount) ==
    /\ Len(raw_amount) <= 5
    /\ (Len(raw_amount) = 5 \/ to_int(raw_amount) \in 2020..2099)

\* amount > Decimal("0.50")
decimal_above_half(amount) ==
    \/ amount[1] # <<>>
    \/ /\ amount[2] # <<>>
       /\ \/ amount[2][1] \in {"6", "7", "8", "9"}
          \/ amount[2][1] = "5" /\ Len(amount[2]) >= 2

\* amount < Decimal("100000")
decimal_below_hundred_thousand(amount) == Len(amount[1]) <= 5

InvoiceLineItem(description, amount) == [Description |-> description, Amount |-> amount]

\* the body of the loop over the lines: the items one line adds
line_items_of(line, locale) ==
    LET match == line_item_match(line)
        desc == strip(match[1])
        amount_str == match[2]
        amount == ParseAmount(amount_str, locale)
    IN  IF Len(line) < 10 \/ Len(line) > 100 THEN <<>>
        ELSE IF skip_patterns(line) THEN <<>>
        ELSE IF match = <<>> THEN <<>>
        ELSE IF year_test(raw_amount_of(amount_str)) THEN <<>>
        ELSE IF /\ amount # NoneVal
                /\ decimal_above_half(amount)
                /\ decimal_below_hundred_thousand(amount)
                /\ desc # <<>>
        THEN <<InvoiceLineItem(desc, amount)>>
        ELSE <<>>

RECURSIVE extract_line_items(_, _)
extract_line_items(lines, locale) ==
    IF lines = <<>> THEN <<>>
    ELSE line_items_of(Head(lines), locale) \o extract_line_items(Tail(lines), locale)

ItemDescriptions ==
    {
      <<"C", "o", "n", "s", "u", "l", "t", "i", "n", "g", " ", "s", "e", "r", "v", "i", "c", "e", "s">>,
      <<"C", "o", "n", "s", "u", "l", "t", "i", "n", "g">>,
      <<"W", "o", "r", "k", " ", "i", "t", "e", "m">>,
      <<"T", "o", "t", "a", "l", " ", "a", "m", "o", "u", "n", "t", " ", "d", "u", "e">>,
      <<"T", "h", "a", "n", "k", " ", "y", "o", "u", " ", "k", "i", "n", "d", "l", "y">>,
      <<"U", "p", "s", "t", "r", "e", "a", "m", " ", "c", "a", "b", "l", "e">>,
      <<"C", "o", "n", "s", "u", "l", "t", "i", "n", "g", " ", "s", "e", "r", "v", "i", "c", "e", "s", " ", "x", "x", "x", "x", "x", "x", "x", "x", "x", "x", "x", "x", "x", "x", "x", "x", "x", "x", "x", "x", "x", "x", "x", "x", "x", "x", "x", "x", "x", "x", "x", "x", "x", "x", "x", "x", "x", "x", "x", "x", "x", "x", "x", "x", "x", "x", "x", "x", "x", "x", "x", "x", "x", "x", "x", "x", "x", "x", "x", "x", "x", "x", "x", "x", "x", "x", "x", "x", "x", "x", "x", "x", "x", "x", "x", "x", "x", "x", "x", "x", "x", "x", "x", "x", "x", "x", "x", "x", "x", "x">>
    }

ItemIntegerParts ==
    {
      <<"0">>, <<"1">>, <<"1", "2">>, <<"2", "0">>, <<"1", "2", "3">>,
      <<"9", "9", "9">>, <<"1", "2", "3", "4">>, <<"2", "0", "2", "4">>,
      <<"9", "9", "9", "9", "9">>, <<"1", "0", "0", "0", "0", "0">>,
      <<"1", " ", "2", "3", "4">>, <<"1", "2", " ", "3", "4">>
    }

ItemFractions ==
    {<<"0", "0">>, <<"2", "4">>, <<"5", "0">>, <<"5", "1">>}

ItemCurrencyParts ==
    {<<>>, <<" ", "k", "r">>, <<"$">>, <<" ", "E", "U", "R">>}

ItemLines ==
    {d \o <<" ">> \o i \o <<s>> \o f \o c :
        d \in ItemDescriptions, i \in ItemIntegerParts, s \in {".", ","},
        f \in ItemFractions, c \in ItemCurrencyParts}

ItemsStart ==
    /\ i_pc = "input"
    /\ \E line \in ItemLines : i_lines = <<line>>
    /\ i_locale \in Locales
    /\ i_items = <<>>

\* return of _extract_line_items
ItemsExtractLineItems ==
    /\ i_pc = "input"
    /\ i_items' = extract_line_items(i_lines, i_locale)
    /\ i_pc' = "done"
    /\ UNCHANGED <<i_lines, i_locale>>
    /\ UNCHANGED itemsOthers

\* an amount that looks like a 4- or 5-digit year: its digits are 4 or 5
\* and start with 19 or 20
ItemYearLike(amount_str) ==
    LET raw == raw_amount_of(amount_str)
    IN  /\ Len(raw) \in {4, 5}
        /\ raw[1] \in {"1", "2"}
        /\ SubSeq(raw, 1, 2) \in {<<"1", "9">>, <<"2", "0">>}

ItemInInterval(amount) ==
    /\ amount # NoneVal
    /\ decimal_above_half(amount)
    /\ decimal_below_hundred_thousand(amount)

\* C29: a line of 10 to 100 characters of the shape "<description of at
\* least 10 characters> <amount>[currency]" that matches no skip pattern
\* and whose amount parses to a value in (0.50, 100000) gives a line item,
\* unless the amount is a 4- or 5-digit year; and no item has an amount
\* outside (0.50, 100000).
C29_ItemForEveryShapedLine ==
    i_pc = "done" =>
        /\ \A n \in 1..Len(i_lines) :
               LET line == i_lines[n]
                   match == line_item_match(line)
               IN  (/\ Len(line) >= 10 /\ Len(line) <= 100
                    /\ match # <<>>
                    /\ ~skip_patterns(line)
                    /\ ItemInInterval(ParseAmount(match[2], i_locale))
                    /\ ~ItemYearLike(match[2]))
                   => \E k \in 1..Len(i_items) :
                          i_items[k].Amount = ParseAmount(match[2], i_locale)
        /\ \A k \in 1..Len(i_items) : ItemInInterval(i_items[k].Amount)

(***************************************************************************)
(* Claims about the orchestrator.                                          *)
(***************************************************************************)
Present(d) == d # NoDecimal

\* Every field but RawText, Confidence and Warnings is at its default.
OnlyRawText(invoice) ==
    [invoice EXCEPT !.RawText = NoneVal, !.Confidence = 0, !.Warnings = <<>>]
        = ParsedInvoice(NoneVal, 0, <<>>)

\* C3: in every invoice that is returned, a VAT amount and a total amount
\* that are both present satisfy vat < total: a VAT amount >= total, parsed
\* or derived, has been removed.
C3_VatBelowTotal ==
    (p_pc = "returned" /\ Present(p_out.VatAmount) /\ Present(p_out.TotalAmount))
        => p_out.VatAmount[1] < p_out.TotalAmount[1]

\* An invoice was returned whose parsed VAT amount was not below the parsed
\* total, and the VAT amount is gone.
C3_Witness ==
    /\ p_pc = "returned"
    /\ Present(p_parsed.VatAmount) /\ Present(p_parsed.TotalAmount)
    /\ p_parsed.VatAmount[1] >= p_parsed.TotalAmount[1]
    /\ p_out.TotalAmount = p_parsed.TotalAmount
    /\ ~Present(p_out.VatAmount)

AllThreePresent(invoice) ==
    /\ Present(invoice.TotalAmount)
    /\ Present(invoice.TotalExcludingVat)
    /\ Present(invoice.VatAmount)

\* C4 as stated: the three amounts of every returned invoice are consistent
\* whatever the extractors parsed: total = subtotal + vat within 0.01,
\* vat = total - subtotal, subtotal = total - vat.
C4_AmountsConsistent ==
    (p_pc = "returned" /\ AllThreePresent(p_out))
        => LET total == p_out.TotalAmount[1]
               subtotal == p_out.TotalExcludingVat[1]
               vat == p_out.VatAmount[1]
           IN /\ total - (subtotal + vat) \in -1..1
              /\ vat = total - subtotal
              /\ subtotal = total - vat

\* C4, amended: when the three amounts are present in the returned invoice
\* and at least one of them was derived (the extractors did not parse all
\* three), total = subtotal + vat exactly.
C4_DerivedAmountsConsistent ==
    (p_pc = "returned" /\ AllThreePresent(p_out) /\ ~AllThreePresent(p_parsed))
        => LET total == p_out.TotalAmount[1]
               subtotal == p_out.TotalExcludingVat[1]
               vat == p_out.VatAmount[1]
           IN /\ total = subtotal + vat
              /\ vat = total - subtotal
              /\ subtotal = total - vat

\* The VAT amount was derived from a parsed total and subtotal and kept.
C4_Witness ==
    /\ p_pc = "returned"
    /\ Present(p_parsed.TotalAmount) /\ Present(p_parsed.TotalExcludingVat)
    /\ ~Present(p_parsed.VatAmount)
    /\ AllThreePresent(p_out)
    /\ p_out.VatAmount[1] > 0

\* C8 as stated: when an extractor raises while Parse runs, no exception
\* reaches the caller, who receives an invoice with raw_text, confidence 0,
\* warnings ["ParsingError"] and nothing else.
C8_NoExceptionReachesCaller ==
    p_threw =>
        /\ p_pc # "raised"
        /\ p_pc = "returned" =>
              /\ p_out.RawText # NoneVal
              /\ p_out.Confidence = 0
              /\ p_out.Warnings = <<"ParsingError">>
              /\ OnlyRawText(p_out)

\* C8, amended: when an extractor raises while Parse runs on behalf of
\* InvoiceParsingFacade.ParseInvoice, no exception reaches the caller of
\* ParseInvoice, who receives an invoice with raw_text (the best text of
\* the extraction), confidence 0, warnings ["ParsingError"] and nothing else.
C8_FacadeReturnsParsingError ==
    (p_threw /\ p_entry = "facade") =>
        /\ p_pc # "raised"
        /\ p_pc = "returned" =>
              /\ p_out.RawText # NoneVal
              /\ p_out.RawText = BestText(p_extraction)
              /\ p_out.Confidence = 0
              /\ p_out.Warnings = <<"ParsingError">>
              /\ OnlyRawText(p_out)

\* ParseInvoice has returned after an extractor raised.
C8_Witness ==
    /\ p_threw
    /\ p_entry = "facade"
    /\ p_pc = "returned"
    /\ p_out.Warnings = <<"ParsingError">>

NoVariantsHeld == ~HasVariants(p_extraction)

\* C9 as stated: with an extraction that holds no variants the call returns
\* an invoice of confidence 0 with no field but raw_text, whatever email
\* subject, sender, date or body is supplied.
C9_NoVariantsGivesEmptyInvoice ==
    NoVariantsHeld =>
        /\ p_pc \notin {"extract", "exception", "raised"}
        /\ p_pc = "returned" => (p_out.Confidence = 0 /\ OnlyRawText(p_out))

\* C9, amended: with an extraction that holds no variants, ParseInvoice
\* returns an invoice of confidence 0 with no field but raw_text whatever
\* email is supplied; Parse called directly does so when sender, subject
\* and body are each absent or blank (whatever the email date).
C9_NoVariantsNoEmailGivesEmptyInvoice ==
    (/\ NoVariantsHeld
     /\ \/ p_entry = "facade"
        \/ /\ ~NonBlank(p_email.From)
           /\ ~NonBlank(p_email.Subject)
           /\ ~NonBlank(p_email.Body)) =>
        /\ p_pc \notin {"extract", "exception", "raised"}
        /\ p_pc = "returned" =>
              /\ p_out.Confidence = 0
              /\ p_out.Warnings = <<>>
              /\ OnlyRawText(p_out)

\* Parse itself returned the empty invoice for an extraction without
\* variants and an email whose parts are blank strings.
C9_Witness ==
    /\ p_pc = "returned"
    /\ p_entry = "direct"
    /\ p_extraction = "NoVariants"
    /\ p_email.From = " "
    /\ p_out.Confidence = 0
    /\ OnlyRawText(p_out)

\* C10: the confidence of a returned invoice is the weighted presence score
\* of the fields of that invoice (after the currency fallback and after the
\* email-date fallback) divided by 8, and lies in [0, 1].  In sixteenths:
\* the score in half points, between 0 and 16.
C10_ConfidenceOfReturnedFields ==
    p_pc = "returned" =>
        /\ p_out.Confidence = PresenceScore(p_out)
        /\ p_out.Confidence \in 0..16

(***************************************************************************)
(* The specifications.                                                     *)
(***************************************************************************)
AggNext ==
    \/ ExtractorYields
    \/ NextExtractor
    \/ NextText
    \/ ExtractBestReturns
    \/ ExtractAllReturns

AggInit == AggStart /\ XYIdle /\ ParseIdle /\ MoneyIdle /\ TextIdle /\ RestIdle

SpecAgg == AggInit /\ [][AggNext]_vars

XYNext == ProcessDocument

XYInit == XYStart /\ AggIdle /\ ParseIdle /\ MoneyIdle /\ TextIdle /\ RestIdle

SpecXY == XYInit /\ [][XYNext]_vars

ParseNext ==
    \/ FacadeNoVariants
    \/ FacadeCallsParse
    \/ DirectCallsParse
    \/ ParseNoDocuments
    \/ ParseBuildsContexts
    \/ ParseExtractsAndReturns
    \/ ExtractorRaises
    \/ FacadeCatches
    \/ ParsePropagates

ParseInit == ParseStart /\ XYIdle /\ AggIdle /\ MoneyIdle /\ TextIdle /\ RestIdle

SpecParse == ParseInit /\ [][ParseNext]_vars

MoneyNext == ParseAmountCall

MoneyInit == MoneyStart /\ XYIdle /\ AggIdle /\ ParseIdle /\ TextIdle /\ RestIdle

SpecMoney == MoneyInit /\ [][MoneyNext]_vars

SelectNext ==
    \/ SelectReturnsEarly
    \/ SelectDocuments

SelectInit ==
    SelectStart /\ XYIdle /\ AggIdle /\ ParseIdle /\ MoneyIdle
        /\ NormIdle /\ FmtIdle /\ ExtractIdle /\ RestIdle

SpecSelect == SelectInit /\ [][SelectNext]_vars

NormNext == NormalizeBlock

NormInit ==
    NormStart /\ XYIdle /\ AggIdle /\ ParseIdle /\ MoneyIdle
        /\ SelectIdle /\ FmtIdle /\ ExtractIdle /\ RestIdle

SpecNorm == NormInit /\ [][NormNext]_vars

FmtNext == FormatOutput

FmtInit ==
    FmtStart /\ XYIdle /\ AggIdle /\ ParseIdle /\ MoneyIdle
        /\ SelectIdle /\ NormIdle /\ ExtractIdle /\ RestIdle

SpecFmt == FmtInit /\ [][FmtNext]_vars

ExtractNext ==
    \/ ExtractProcessDocument
    \/ ExtractFormatOutput
    \/ ExtractAgain

ExtractInit ==
    ExtractStart /\ XYIdle /\ AggIdle /\ ParseIdle /\ MoneyIdle
        /\ SelectIdle /\ NormIdle /\ FmtIdle /\ RestIdle

SpecExtract == ExtractInit /\ [][ExtractNext]_vars

DateNext == DateParserParseCall

DateInit ==
    DateStart /\ XYIdle /\ AggIdle /\ ParseIdle /\ MoneyIdle
        /\ TextIdle /\ LocaleIdle /\ AmountIdle /\ VendorIdle
        /\ PosIdle /\ DatesIdle /\ CustomerIdle /\ ItemsIdle

SpecDate == DateInit /\ [][DateNext]_vars

LocaleNext == LocaleDetect

LocaleInit ==
    LocaleStart /\ XYIdle /\ AggIdle /\ ParseIdle /\ MoneyIdle
        /\ TextIdle /\ DateIdle /\ AmountIdle /\ VendorIdle
        /\ PosIdle /\ DatesIdle /\ CustomerIdle /\ ItemsIdle

SpecLocale == LocaleInit /\ [][LocaleNext]_vars

AmountNext ==
    \/ SwedishReverseVatExtractAll
    \/ VatAmountExtractAll
    \/ AnchoredTotalExtractAll

AmountInit ==
    AmountStart /\ XYIdle /\ AggIdle /\ ParseIdle /\ MoneyIdle
        /\ TextIdle /\ DateIdle /\ LocaleIdle /\ VendorIdle
        /\ PosIdle /\ DatesIdle /\ CustomerIdle /\ ItemsIdle

SpecAmount == AmountInit /\ [][AmountNext]_vars

VendorNext ==
    VendorExtract

VendorInit ==
    VendorStart /\ XYIdle /\ AggIdle /\ ParseIdle /\ MoneyIdle
        /\ TextIdle /\ DateIdle /\ LocaleIdle /\ AmountIdle
        /\ PosIdle /\ DatesIdle /\ CustomerIdle /\ ItemsIdle

SpecVendor == VendorInit /\ [][VendorNext]_vars

PosNext ==
    PosGetRelativePosition

PosInit ==
    PosStart /\ XYIdle /\ AggIdle /\ ParseIdle /\ MoneyIdle
        /\ TextIdle /\ DateIdle /\ LocaleIdle /\ AmountIdle
        /\ VendorIdle /\ DatesIdle /\ CustomerIdle /\ ItemsIdle

SpecPos == PosInit /\ [][PosNext]_vars

DatesNext ==
    \/ DatesWithText
    \/ DatesExtractAll
    \/ DatesReturn

DatesInit ==
    DatesStart /\ XYIdle /\ AggIdle /\ ParseIdle /\ MoneyIdle
        /\ TextIdle /\ DateIdle /\ LocaleIdle /\ AmountIdle
        /\ VendorIdle /\ PosIdle /\ CustomerIdle /\ ItemsIdle

SpecDates == DatesInit /\ [][DatesNext]_vars

CustomerNext ==
    CustomerIsCustomerContext

CustomerInit ==
    CustomerStart /\ XYIdle /\ AggIdle /\ ParseIdle /\ MoneyIdle
        /\ TextIdle /\ DateIdle /\ LocaleIdle /\ AmountIdle
        /\ VendorIdle /\ PosIdle /\ DatesIdle /\ ItemsIdle

SpecCustomer == CustomerInit /\ [][CustomerNext]_vars

ItemsNext ==
    ItemsExtractLineItems

ItemsInit ==
    ItemsStart /\ XYIdle /\ AggIdle /\ ParseIdle /\ MoneyIdle
        /\ TextIdle /\ DateIdle /\ LocaleIdle /\ AmountIdle
        /\ VendorIdle /\ PosIdle /\ DatesIdle /\ CustomerIdle

SpecItems == ItemsInit /\ [][ItemsNext]_vars

Spec == SpecXY

====
